---------------------------- MODULE Spec2Model ----------------------------
(***************************************************************************)
(* State-machine model of the aws-crypto-streaming pipeline:               *)
(*   - the Tiingo websocket client   (src/producer/app/src/tiingo)         *)
(*   - the delivery retry wrappers   (batches.py aws_retry and the older   *)
(*                                    TradeBatch.put_to_stream)            *)
(*   - the DynamoDB writer           (src/lambda/app/src/trade_processor)  *)
(*   - the consumer's TradeList      (trade_processor/trades.py)           *)
(*   - compress / decompress / parse (tiingo/batches.py, trades.py)        *)
(*   - the consumer entry point      (src/lambda/app/src/app.py)           *)
(*   - the date validator            (tiingo/data_structs.py)              *)
(* Each component has its own specification; the variables of the other    *)
(* components stay at their initial values under it.                       *)
(***************************************************************************)
EXTENDS Integers, Sequences, FiniteSets, TLC

VARIABLES
    \* ---- TiingoClient and its caller
    cpc,          \* position of the caller: constructor steps, idle, in a call
    op,           \* the public operation running or last run on the client
    frames_sent,  \* number of frames written with send()
    nreads,       \* number of recv() calls so far: the connection's read position
    lastmsg,      \* the raw record returned by the last recv()
    message,      \* local `message` of get_next_trade
    callReads,    \* reads performed by the current / last get_next_trade call
    callStart,    \* value of nreads when the current / last public call began
    want,         \* `size` argument of the current / last get_next_batch
    batch,        \* list built by get_next_batch
    tradeCalls,   \* get_next_trade calls made by the current / last get_next_batch
    ret,          \* value returned by the last finished operation
    exc,          \* exception raised by the last finished operation
    frames,       \* payloads written with send(), in order
    outstanding,  \* trades read by get_next_trade calls and not yet returned
    lost,         \* the trades outstanding when a call raised for the first time
    misordered,   \* a call returned something else than the oldest outstanding trades
    failed,       \* a public call on the client has raised
    \* ---- delivery of one compressed batch to the sink
    dpc,          \* position inside one put
    dvariant,     \* which delivery code runs the put
    total_retries,\* retry budget of the put
    retries,      \* local `retries`
    answers,      \* the sink's answer to each put_record call of this put
    sleeps,       \* argument of each time.sleep call of this put
    dret,         \* value returned by the put
    dexc,         \* exception raised by the put
    \* ---- TradeList.put_to_dynamodb for one chunk
    wpc,          \* position inside one write
    chunk,        \* the items of the TradeList being written
    calls,        \* request items of each batch_write_item call of this write
    committed,    \* items the store has committed
    response,     \* last response of batch_write_item
    wexc,         \* exception raised by the write
    \* ---- one TradeList of the consumer
    tpc,          \* position of the caller of the TradeList
    trades,       \* TradeList.trades
    batch_arg,    \* size argument of the last TradeList.batch call
    batches,      \* value returned by the last TradeList.batch call
    writes,       \* RequestItems[table] of each batch_write_item call
    texc,         \* exception raised by TradeList.put_to_dynamodb
    \* ---- one compressed object from TradeBatch.compress to RawTrades.parse
    gpc,          \* position: new, file, raw, parsed, raised
    sent,         \* TradeBatch.batch the object was compressed from, if any
    file,         \* the compressed object: CompressedTrades.file
    raw,          \* the decompressed text: RawTrades.file
    tz,           \* local time zone of the consumer process, seconds east of UTC
    parsed,       \* TradeList.trades returned by RawTrades.parse
    gexc,         \* exception raised by decompress or parse
    \* ---- one invocation of lambda_handler
    hpc,          \* position inside the invocation
    event,        \* bucket name and encoded object key of the event's first record
    s3get,        \* Bucket and Key of the get_object call
    hfile,        \* bytes returned by get_file_from_s3
    hraw,         \* text returned by decompress_file
    htrades,      \* list returned by parse_file_to_trade_list
    hresp,        \* LambdaResponse returned by the handler
    hexc,         \* exception that left the handler
    hsteps,       \* the functions the handler has called, in order
    hwrites,      \* batch_write_item calls issued: the put requests of each
    \* ---- one call of the date validator TradeMessage.ensure_timestamp
    npc,          \* position: new, called, returned, raised
    date_arg,     \* the argument
    normalized,   \* the value returned
    nexc,         \* the exception raised
    \* ---- one call of an earlier subscription routine
    spc,          \* position: idle, connected, sent, subscribed, done, raised
    svariant,     \* the routine: create_websocket or subscribe_and_flush
    sframes,      \* payloads written with ws.send(), in order
    sreads,       \* records read with ws.recv(), in order
    sexc,         \* exception raised by the routine
    \* ---- the producer process: app.py main
    mpc,          \* position in main
    mbatch_size,  \* batch_size of the config
    mreads,       \* messages read from the connection so far
    mcalls,       \* get_next_batch calls started
    mbatch,       \* list under construction in the running get_next_batch
    mcompressed,  \* batch.compress() calls made
    mpayload,     \* compressed_batch of the current iteration
    mretries,     \* retries of the running put_to_kinesis_stream
    mappends,     \* put_record calls issued
    mdelivered,   \* payloads of the put_record calls that succeeded, in order
    msince,       \* trades pulled since the last put_record call that succeeded
    mstep,        \* the step of main that raised
    mraised,      \* the exception that step raised
    mlogged,      \* logger.exception(e) was called
    mexc,         \* the exception that left main
    \* processed_at stamps (producer TradeMessage / TradeData)
    kpc,          \* "start" | "imported": the producer module was imported
    kvariant,     \* the producer module that runs
    kclock,       \* readings datetime.utcnow() has advanced through
    kdefault,     \* class-level default of processed_at, "" when there is none
    kstamps       \* records built: the clock then and their processed_at

clientHistory == <<frames, outstanding, lost, misordered, failed>>
clientVars == <<cpc, op, frames_sent, nreads, lastmsg, message, callReads, callStart,
                want, batch, tradeCalls, ret, exc, clientHistory>>
deliveryVars == <<dpc, dvariant, total_retries, retries, answers, sleeps, dret, dexc>>
writerVars == <<wpc, chunk, calls, committed, response, wexc>>
tradeListVars == <<tpc, trades, batch_arg, batches, writes, texc>>
decodeVars == <<gpc, sent, file, raw, tz, parsed, gexc>>
handlerVars == <<hpc, event, s3get, hfile, hraw, htrades, hresp, hexc, hsteps, hwrites>>
normalizerVars == <<npc, date_arg, normalized, nexc>>
sessionVars == <<spc, svariant, sframes, sreads, sexc>>
mainProgress == <<mreads, mcalls, mbatch, mcompressed, mpayload, mretries, mappends, mdelivered, msince>>
mainFailure == <<mstep, mraised, mlogged, mexc>>
mainVars == <<mpc, mbatch_size, mainProgress, mainFailure>>
stampVars == <<kpc, kvariant, kclock, kdefault, kstamps>>
vars == <<clientVars, deliveryVars, writerVars, tradeListVars, decodeVars, handlerVars, normalizerVars, sessionVars, mainVars, stampVars>>

---------------------------------------------------------------------------
(* Bounds of the model *)

MaxReads == 5
MaxBatch == 2

---------------------------------------------------------------------------
(* Wire records: what json.loads(self.recv()) can yield *)

Codes == {200, 401}
Texts == {"Success", "Authorization failed"}
Tickers == {"BTC", "ETH"}
\* vendor timestamps: without fractional seconds (25 characters), with them
\* (32 characters), and one of another length
Dates == {"2022-01-01T00:00:00+00:00", "2022-01-01T00:01:13.123456+00:00",
          "2022-01-01"}

NoData == <<>>

NonTradeRecords ==
    [messageType : {"H", "I", "E"}, code : Codes, message : Texts, data : {NoData}]

TradeRecords ==
    [messageType : {"A"}, code : {0}, message : {""},
     data : {<<"A", t, d, "Bitfenix", 1234, 5678>> : t \in Tickers, d \in Dates}]

\* a record whose messageType is none of E, H, I, A
UnknownRecords ==
    [messageType : {"X"}, code : {200}, message : {"Success"}, data : {NoData}]

TiingoRecord == NonTradeRecords \cup TradeRecords \cup UnknownRecords

NoRecord == [messageType |-> "", code |-> 0, message |-> "", data |-> NoData]

---------------------------------------------------------------------------
(* Exceptions and return values *)

NoExc == [type |-> "none", code |-> 0, message |-> ""]
Exc(t, c, m) == [type |-> t, code |-> c, message |-> m]

TiingoClientError(code, msg) == Exc("TiingoClientError", code, msg)
TiingoMessageError(code, msg) == Exc("TiingoMessageError", code, msg)
TiingoSubscriptionError(code, msg) == Exc("TiingoSubscriptionError", code, msg)
TiingoBatchSizeError(size) == Exc("TiingoBatchSizeError", size, "")
KeyError == Exc("KeyError", 0, "")
WebSocketError == Exc("WebSocketException", 0, "")

NoMessage == [kind |-> "none"]
NoRet == [kind |-> "none"]

---------------------------------------------------------------------------
(* data_structs.py, parsers.py *)

RECURSIVE StrReplace(_, _)
\* str.replace(s, old, ""): every occurrence of old removed, left to right
StrReplace(s, old) ==
    IF Len(s) < Len(old) THEN s
    ELSE IF SubSeq(s, 1, Len(old)) = old
         THEN StrReplace(SubSeq(s, Len(old) + 1, Len(s)), old)
         ELSE SubSeq(s, 1, 1) \o StrReplace(SubSeq(s, 2, Len(s)), old)

\* TradeMessage.ensure_timestamp: the dict lookup by len(timestamp) raises
\* KeyError for every length other than 32 and 25
ensure_timestamp_raises(timestamp) == Len(timestamp) \notin {32, 25}

\* mutation of ensure_timestamp: no fractional group is added to a timestamp
\* that has none
ensure_timestamp_NoPad(ts) ==
    LET naked_timestamp == StrReplace(ts, "+00:00")
    IN  naked_timestamp \o "Z"

ensure_timestamp(timestamp) ==
    LET naked_timestamp == StrReplace(timestamp, "+00:00")
    IN  IF Len(timestamp) = 32 THEN naked_timestamp \o "Z"
        ELSE naked_timestamp \o ".000000Z"

NonTradeMessage(code, msg) == [kind |-> "NonTradeMessage", code |-> code, message |-> msg]

TradeMessage(ticker, date, exchange, size, price) ==
    [kind |-> "TradeMessage", ticker |-> ticker, date |-> ensure_timestamp(date),
     exchange |-> exchange, size |-> size, price |-> price]

\* MessageParserFactory.create: the parser picked for the record's messageType;
\* factory[message_type] raises KeyError for any other type
ParserFor(record) ==
    CASE record.messageType \in {"E", "I", "H"} -> "NonTradeMessageParser"
      [] record.messageType = "A" -> "TradeMessageParser"
      [] OTHER -> "KeyError"

NonTradeMessageParser_parse(record) == NonTradeMessage(record.code, record.message)

\* mutation of TradeMessageParser_parse: size and price change places
TradeMessageParser_parse_Swapped(record) ==
    TradeMessage(record.data[2], record.data[3], record.data[4],
                 record.data[6], record.data[5])

TradeMessageParser_parse(record) ==
    TradeMessage(record.data[2], record.data[3], record.data[4],
                 record.data[5], record.data[6])

\* mutation of raise_for_status: only server-side codes raise
raise_for_status_ServerOnly(msg) ==
    IF msg.kind = "NonTradeMessage" /\ msg.code >= 500
    THEN TiingoClientError(msg.code, msg.message)
    ELSE NoExc

\* NonTradeMessage.raise_for_status / TradeMessage.raise_for_status:
\* the exception raised, or NoExc
raise_for_status(msg) ==
    IF msg.kind = "NonTradeMessage" /\ msg.code # 200
    THEN TiingoClientError(msg.code, msg.message)
    ELSE NoExc

\* mutation of IsTradeMessage: the loop of get_next_trade stops at any message
IsTradeMessage_AnyMessage(msg) == msg.kind # "none"

\* isinstance(message, TradeMessage)
IsTradeMessage(msg) == msg.kind = "TradeMessage"

---------------------------------------------------------------------------
(* client.py *)

\* TiingoClient._get_next_message applied to the record recv() returned:
\* [exc, msg], exc # NoExc when it raises
get_next_message(record) ==
    IF ParserFor(record) = "KeyError" THEN [exc |-> KeyError, msg |-> NoMessage]
    ELSE IF ParserFor(record) = "TradeMessageParser"
               /\ ensure_timestamp_raises(record.data[3])
         THEN [exc |-> KeyError, msg |-> NoMessage]
    ELSE LET next_message ==
                 IF ParserFor(record) = "TradeMessageParser"
                 THEN TradeMessageParser_parse(record)
                 ELSE NonTradeMessageParser_parse(record)
             e == raise_for_status(next_message)
         IN  IF e # NoExc
             THEN [exc |-> TiingoMessageError(e.code, e.message), msg |-> NoMessage]
             ELSE [exc |-> NoExc, msg |-> next_message]

\* TiingoClient._validate_subscription: the exception construction ends with
validate_subscription_exc(e) ==
    IF e.type = "TiingoMessageError"
    THEN TiingoSubscriptionError(e.code, e.message)
    ELSE e

\* self.token
Token == "token"

\* _subscribe: the dict that is serialized and sent
SubscribePayload(token) ==
    [eventName |-> "subscribe", authorization |-> token,
     eventData |-> [thresholdLevel |-> 5]]

\* the caller receives the trades `returned`: they leave the queue of
\* outstanding trades when they are its oldest elements, in order
IsOldest(queue, returned) ==
    /\ Len(returned) <= Len(queue)
    /\ SubSeq(queue, 1, Len(returned)) = returned

AfterReturn(queue, returned) ==
    IF IsOldest(queue, returned)
    THEN SubSeq(queue, Len(returned) + 1, Len(queue))
    ELSE queue

ClientInit ==
    /\ cpc = "init"
    /\ op = "__init__"
    /\ frames_sent = 0
    /\ nreads = 0
    /\ lastmsg = NoRecord
    /\ message = NoMessage
    /\ callReads = 0
    /\ callStart = 0
    /\ want = 0
    /\ batch = <<>>
    /\ tradeCalls = 0
    /\ ret = NoRet
    /\ exc = NoExc
    /\ frames = <<>>
    /\ outstanding = <<>>
    /\ lost = <<>>
    /\ misordered = FALSE
    /\ failed = FALSE

\* __init__ -> _subscribe -> _make_connection: self.connect(url) opens the
\* transport or raises
make_connection ==
    /\ cpc = "init"
    /\ \E ok \in BOOLEAN :
          IF ok THEN /\ cpc' = "connected"
                     /\ exc' = NoExc
                ELSE /\ cpc' = "failed"
                     /\ exc' = WebSocketError
    /\ UNCHANGED clientHistory
    /\ UNCHANGED <<frames_sent, nreads, lastmsg, message, callReads, callStart,
                   want, batch, tradeCalls, ret>>
    /\ UNCHANGED <<deliveryVars, writerVars, tradeListVars, decodeVars, handlerVars, normalizerVars, sessionVars, mainVars, stampVars>>
    /\ UNCHANGED op

\* _subscribe: self._send_payload(json.dumps(subscribe))
send_payload ==
    /\ cpc = "connected"
    /\ frames_sent' = frames_sent + 1
    /\ frames' = Append(frames, SubscribePayload(Token))
    /\ cpc' = "sent"
    /\ UNCHANGED <<outstanding, lost, misordered, failed>>
    /\ UNCHANGED <<nreads, lastmsg, message, callReads, callStart, want, batch,
                   tradeCalls, ret, exc>>
    /\ UNCHANGED <<deliveryVars, writerVars, tradeListVars, decodeVars, handlerVars, normalizerVars, sessionVars, mainVars, stampVars>>
    /\ UNCHANGED op

\* _subscribe: self._validate_subscription(), which reads one message; the
\* constructor returns when it raises nothing
validate_subscription ==
    /\ cpc = "sent"
    /\ nreads < MaxReads
    /\ \E record \in TiingoRecord :
          LET r == get_next_message(record)
          IN  /\ lastmsg' = record
              /\ nreads' = nreads + 1
              /\ IF r.exc # NoExc
                 THEN /\ exc' = validate_subscription_exc(r.exc)
                      /\ cpc' = "failed"
                 ELSE /\ exc' = NoExc
                      /\ cpc' = "ready"
    /\ UNCHANGED clientHistory
    /\ UNCHANGED <<frames_sent, message, callReads, callStart, want, batch,
                   tradeCalls, ret>>
    /\ UNCHANGED <<deliveryVars, writerVars, tradeListVars, decodeVars, handlerVars, normalizerVars, sessionVars, mainVars, stampVars>>
    /\ UNCHANGED op

\* a caller invokes client.get_next_trade()
call_get_next_trade ==
    /\ cpc = "ready"
    /\ op' = "get_next_trade"
    /\ cpc' = "trade"
    /\ callReads' = 0
    /\ callStart' = nreads
    /\ ret' = NoRet
    /\ exc' = NoExc
    /\ message' = NoMessage
    /\ UNCHANGED clientHistory
    /\ UNCHANGED <<frames_sent, nreads, lastmsg, want, batch, tradeCalls>>
    /\ UNCHANGED <<deliveryVars, writerVars, tradeListVars, decodeVars, handlerVars, normalizerVars, sessionVars, mainVars, stampVars>>

\* get_next_trade: one self._get_next_message() and the loop test after it.
\* The call ends by raising what _get_next_message raised, or by returning
\* `message` once it is a TradeMessage; otherwise the loop reads again.
get_next_trade_read ==
    /\ cpc \in {"trade", "batch_trade"}
    /\ nreads < MaxReads
    /\ \E record \in TiingoRecord :
          LET r == get_next_message(record)
          IN  /\ lastmsg' = record
              /\ nreads' = nreads + 1
              /\ callReads' = callReads + 1
              /\ IF failed THEN UNCHANGED <<outstanding, lost, misordered, failed>>
                 ELSE LET queue == IF r.exc = NoExc /\ IsTradeMessage(r.msg)
                                   THEN Append(outstanding, r.msg)
                                   ELSE outstanding
                          returned == IF r.exc = NoExc /\ IsTradeMessage(r.msg)
                                         /\ cpc = "trade"
                                      THEN <<r.msg>> ELSE <<>>
                      IN  /\ failed' = (r.exc # NoExc)
                          /\ lost' = IF r.exc # NoExc THEN queue ELSE lost
                          /\ misordered' = (misordered \/ ~IsOldest(queue, returned))
                          /\ outstanding' = IF r.exc # NoExc THEN <<>>
                                            ELSE AfterReturn(queue, returned)
              /\ IF r.exc # NoExc
                 THEN \* propagates out of get_next_trade (and get_next_batch)
                      /\ exc' = r.exc
                      /\ ret' = NoRet
                      /\ cpc' = "ready"
                      /\ UNCHANGED <<message, batch>>
                 ELSE /\ message' = r.msg
                      /\ exc' = NoExc
                      /\ IF IsTradeMessage(r.msg)
                         THEN IF cpc = "trade"
                              THEN /\ ret' = r.msg
                                   /\ cpc' = "ready"
                                   /\ UNCHANGED batch
                              ELSE /\ batch' = Append(batch, r.msg)
                                   /\ cpc' = "batch"
                                   /\ UNCHANGED ret
                         ELSE UNCHANGED <<cpc, ret, batch>>
    /\ UNCHANGED <<frames_sent, callStart, want, tradeCalls, frames>>
    /\ UNCHANGED <<deliveryVars, writerVars, tradeListVars, decodeVars, handlerVars, normalizerVars, sessionVars, mainVars, stampVars>>
    /\ UNCHANGED op

\* mutation of BatchSizeInvalid: only negative sizes are refused
BatchSizeInvalid_Negative(size) == size < 0

\* get_next_batch(size): the size test
BatchSizeInvalid(size) == size < 1

\* a caller invokes client.get_next_batch(size)
call_get_next_batch ==
    /\ cpc = "ready"
    /\ \E size \in -1 .. MaxBatch :
          /\ want' = size
          /\ failed' = (failed \/ BatchSizeInvalid(size))
          /\ lost' = IF ~failed /\ BatchSizeInvalid(size) THEN outstanding ELSE lost
          /\ outstanding' = IF ~failed /\ BatchSizeInvalid(size) THEN <<>>
                            ELSE outstanding
          /\ IF BatchSizeInvalid(size)
             THEN /\ exc' = TiingoBatchSizeError(size)
                  /\ cpc' = "ready"
             ELSE /\ exc' = NoExc
                  /\ cpc' = "batch"
    /\ op' = "get_next_batch"
    /\ callStart' = nreads
    /\ callReads' = 0
    /\ tradeCalls' = 0
    /\ batch' = <<>>
    /\ ret' = NoRet
    /\ message' = NoMessage
    /\ UNCHANGED <<frames_sent, nreads, lastmsg, frames, misordered>>
    /\ UNCHANGED <<deliveryVars, writerVars, tradeListVars, decodeVars, handlerVars, normalizerVars, sessionVars, mainVars, stampVars>>

\* mutation of RangeHasNext: range(size - 1)
RangeHasNext_Short(done, size) == done + 1 < size

\* get_next_batch: range(size) has another element for the comprehension
RangeHasNext(done, size) == done < size

\* get_next_batch: the comprehension calls self.get_next_trade() once more
batch_iterate ==
    /\ cpc = "batch"
    /\ RangeHasNext(Len(batch), want)
    /\ cpc' = "batch_trade"
    /\ tradeCalls' = tradeCalls + 1
    /\ callReads' = 0
    /\ message' = NoMessage
    /\ UNCHANGED clientHistory
    /\ UNCHANGED <<frames_sent, nreads, lastmsg, callStart, want, batch, ret, exc>>
    /\ UNCHANGED <<deliveryVars, writerVars, tradeListVars, decodeVars, handlerVars, normalizerVars, sessionVars, mainVars, stampVars>>
    /\ UNCHANGED op

\* mutation of TradeBatch: the first trade of the list is left out
TradeBatch_DropFirst(b) == [kind |-> "TradeBatch", batch |-> Tail(b)]

TradeBatch(b) == [kind |-> "TradeBatch", batch |-> b]

\* get_next_batch: range(size) is exhausted, return TradeBatch(batch)
batch_return ==
    /\ cpc = "batch"
    /\ ~RangeHasNext(Len(batch), want)
    /\ ret' = TradeBatch(batch)
    /\ IF failed THEN UNCHANGED <<outstanding, misordered>>
       ELSE /\ misordered' = (misordered \/ ~IsOldest(outstanding, TradeBatch(batch).batch))
            /\ outstanding' = AfterReturn(outstanding, TradeBatch(batch).batch)
    /\ cpc' = "ready"
    /\ UNCHANGED <<frames, lost, failed>>
    /\ UNCHANGED <<frames_sent, nreads, lastmsg, message, callReads, callStart,
                   want, batch, tradeCalls, exc>>
    /\ UNCHANGED <<deliveryVars, writerVars, tradeListVars, decodeVars, handlerVars, normalizerVars, sessionVars, mainVars, stampVars>>
    /\ UNCHANGED op

ClientNext ==
    \/ make_connection
    \/ send_payload
    \/ validate_subscription
    \/ call_get_next_trade
    \/ get_next_trade_read
    \/ call_get_next_batch
    \/ batch_iterate
    \/ batch_return

---------------------------------------------------------------------------
(* Delivery: batches.py aws_retry / CompressedBatch.put_to_kinesis_stream,  *)
(* producer/app/tiingo.py retry, producer/tiingo.py TradeBatch.put_to_stream *)

MaxTotalRetries == 3
DefaultDelay == 5
PutToStreamTotalRetries == 3
PutToStreamSleep == 5

DeliveryVariants == {"aws_retry", "retry", "put_to_stream"}

ErrorCodes == {"ServiceUnavailableError", "AccessDeniedException",
               "InvalidArgumentException"}
RecordIds == {"r1", "r2"}

\* what firehose_client.put_record does: a response, or a ClientError with a code
SinkOk == [ok : {TRUE}, code : {""}, record_id : RecordIds, encrypted : BOOLEAN]
SinkErr == [ok : {FALSE}, code : ErrorCodes, record_id : {""}, encrypted : {FALSE}]
SinkAnswers == SinkOk \cup SinkErr

ClientError(code) == Exc("ClientError", 0, code)
None == [kind |-> "None"]
FirehoseResponse(record_id, encrypted) ==
    [kind |-> "FirehoseResponse", record_id |-> record_id, encrypted |-> encrypted]

\* mutation of LoopTest: the strict test in every variant
LoopTest_Strict(variant, r, total) == r < total

\* the loop test: `while retries <= total_retries` in aws_retry and retry,
\* `while retries < total_retries` in put_to_stream
LoopTest(variant, r, total) ==
    IF variant = "put_to_stream" THEN r < total ELSE r <= total

\* mutation of ShouldRetry: the error code is not looked at
ShouldRetry_AnyError(error_type, r, total) == r < total

\* mutation of ShouldRetry: the retry budget is not looked at
ShouldRetry_Unbounded(error_type, r, total) == error_type = "ServiceUnavailableError"

\* the test of the except branch, the same in the three variants
ShouldRetry(error_type, r, total) ==
    error_type = "ServiceUnavailableError" /\ r < total

\* the argument of time.sleep, evaluated after retries += 1
SleepArg(variant, r) ==
    IF variant = "put_to_stream" THEN PutToStreamSleep ELSE r * DefaultDelay

\* mutation of ReturnValue: the wrapped call's result is dropped
ReturnValue_Dropped(variant, answer) == None

\* what the wrapped call's normal completion makes the put return:
\* aws_retry returns function(...), the two others break and return None
ReturnValue(variant, answer) ==
    IF variant = "aws_retry"
    THEN FirehoseResponse(answer.record_id, answer.encrypted)
    ELSE None

DeliveryInit ==
    /\ dpc = "idle"
    /\ dvariant = "aws_retry"
    /\ total_retries = 0
    /\ retries = 0
    /\ answers = <<>>
    /\ sleeps = <<>>
    /\ dret = NoRet
    /\ dexc = NoExc

\* a caller starts one put: retries = 0 (and total_retries = 3 in put_to_stream)
put_start ==
    /\ dpc = "idle"
    /\ \E v \in DeliveryVariants :
          /\ dvariant' = v
          /\ IF v = "put_to_stream"
             THEN total_retries' = PutToStreamTotalRetries
             ELSE \E t \in 0 .. MaxTotalRetries : total_retries' = t
    /\ retries' = 0
    /\ answers' = <<>>
    /\ sleeps' = <<>>
    /\ dret' = NoRet
    /\ dexc' = NoExc
    /\ dpc' = "loop"
    /\ UNCHANGED <<clientVars, writerVars, tradeListVars, decodeVars, handlerVars, normalizerVars, sessionVars, mainVars, stampVars>>

\* one evaluation of the while test and, when it holds, one pass of the body:
\* the put_record call and the except branch
put_attempt ==
    /\ dpc = "loop"
    /\ IF ~LoopTest(dvariant, retries, total_retries)
       THEN \* the loop ends and the function returns None
            /\ dpc' = "returned"
            /\ dret' = None
            /\ UNCHANGED <<retries, answers, sleeps, dexc>>
       ELSE \E a \in SinkAnswers :
              /\ answers' = Append(answers, a)
              /\ IF a.ok
                 THEN /\ dpc' = "returned"
                      /\ dret' = ReturnValue(dvariant, a)
                      /\ UNCHANGED <<retries, sleeps, dexc>>
                 ELSE IF ShouldRetry(a.code, retries, total_retries)
                      THEN /\ retries' = retries + 1
                           /\ sleeps' = Append(sleeps, SleepArg(dvariant, retries + 1))
                           /\ UNCHANGED <<dpc, dret, dexc>>
                      ELSE /\ dpc' = "raised"
                           /\ dexc' = ClientError(a.code)
                           /\ UNCHANGED <<retries, sleeps, dret>>
    /\ UNCHANGED <<dvariant, total_retries>>
    /\ UNCHANGED <<clientVars, writerVars, tradeListVars, decodeVars, handlerVars, normalizerVars, sessionVars, mainVars, stampVars>>

DeliveryNext ==
    \/ put_start
    \/ put_attempt

---------------------------------------------------------------------------
(* Writer: trade_processor/dynamodb.py exhaust_unprocessed_items and       *)
(* trade_processor/trades.py TradeList.put_to_dynamodb                     *)

MaxItems == 3

\* the put requests of the records of one TradeList
Items == 1 .. MaxItems

\* batch_write_item reports the items it did not commit under the key
\* "UnprocessedItems"; "UnprocessedKeys" is the key the wrapper reads
ResponseKeys == {"UnprocessedItems", "UnprocessedKeys"}

NoResponse == [key |-> "", items |-> {}]

Absent == [present |-> FALSE, items |-> {}]
Present(v) == [present |-> TRUE, items |-> v]

\* response.get(name): the value under the key, None when the key is absent
dict_get(resp, name) == IF resp.key = name THEN Present(resp.items) ELSE Absent

\* the key exhaust_unprocessed_items reads
UnprocessedKey == "UnprocessedKeys"

TypeError == Exc("TypeError", 0, "")

WriterInit ==
    /\ wpc = "idle"
    /\ chunk = {}
    /\ calls = <<>>
    /\ committed = {}
    /\ response = NoResponse
    /\ wexc = NoExc

\* TradeList(trades).put_to_dynamodb(table) is called: the put requests are built
put_to_dynamodb ==
    /\ wpc = "idle"
    /\ \E c \in (SUBSET Items) \ {{}} : chunk' = c
    /\ calls' = <<>>
    /\ wpc' = "call"
    /\ UNCHANGED <<committed, response, wexc>>
    /\ UNCHANGED <<clientVars, deliveryVars, tradeListVars, decodeVars, handlerVars, normalizerVars, sessionVars, mainVars, stampVars>>

\* mutation of AfterClientError: the wrapper catches the error and calls again
AfterClientError_Retry == "call"

\* the wrapper has no except clause: a ClientError raised by batch_write_item
\* propagates out of wrapper and put_to_dynamodb
AfterClientError == "raised"

\* wrapper: response = function(*args, **kwargs), the first batch_write_item
\* call. The store commits the items it does not report as unprocessed, or
\* raises a ClientError.
put_batch_first_call ==
    /\ wpc = "call"
    /\ \/ /\ wexc' = ClientError("InternalServerError")
          /\ wpc' = AfterClientError
          /\ calls' = Append(calls, chunk)
          /\ UNCHANGED <<committed, response>>
       \/ \E u \in SUBSET chunk, k \in ResponseKeys :
             /\ calls' = Append(calls, chunk)
             /\ committed' = committed \cup (chunk \ u)
             /\ response' = [key |-> k, items |-> u]
             /\ wpc' = "loop"
             /\ UNCHANGED wexc
    /\ UNCHANGED chunk
    /\ UNCHANGED <<clientVars, deliveryVars, tradeListVars, decodeVars, handlerVars, normalizerVars, sessionVars, mainVars, stampVars>>

\* wrapper: unprocessed_items = response.get("UnprocessedKeys") and the while
\* test. The body calls function(unprocessed_items): the undecorated method
\* takes (self, request_items), so the call raises TypeError before any
\* batch_write_item call is made.
exhaust_loop ==
    /\ wpc = "loop"
    /\ LET unprocessed_items == dict_get(response, UnprocessedKey)
       IN  IF unprocessed_items.present
           THEN /\ wexc' = TypeError
                /\ wpc' = "raised"
           ELSE /\ wpc' = "returned"
                /\ UNCHANGED wexc
    /\ UNCHANGED <<chunk, calls, committed, response>>
    /\ UNCHANGED <<clientVars, deliveryVars, tradeListVars, decodeVars, handlerVars, normalizerVars, sessionVars, mainVars, stampVars>>

WriterNext ==
    \/ put_to_dynamodb
    \/ put_batch_first_call
    \/ exhaust_loop

---------------------------------------------------------------------------
(* TradeList: trade_processor/trades.py Trade, TradeList.batch,             *)
(* TradeList.put_to_dynamodb                                               *)

MaxTrades == 27

\* default of the `size` parameter of TradeList.batch
DefaultBatchSize == 25

\* sizes TradeList.batch is called with
BatchSizes == {1, 2, DefaultBatchSize}

\* the consumer's Trade dataclass: every field is a string
Trade(ticker, executed_at, exchange, size, price, producer_processed_at, lambda_processed_at) ==
    [ticker |-> ticker, executed_at |-> executed_at, exchange |-> exchange,
     size |-> size, price |-> price,
     producer_processed_at |-> producer_processed_at,
     lambda_processed_at |-> lambda_processed_at]

\* the i-th trade of a parsed object: one trade per second, alternating tickers
ParsedTrade(i) ==
    Trade(IF i % 2 = 1 THEN "BTC" ELSE "ETH",
          ToString(1640995200 + i) \o ".0", "Bitfenix",
          ToString(i) \o ".5", "5678.0",
          ToString(1640995300 + i) \o ".25", "1640995400.5")

TradeLists == {[i \in 1 .. n |-> ParsedTrade(i)] : n \in 0 .. MaxTrades}

\* mutation of TradeList_batch: range(0, len(trades) - size + 1, size), which
\* leaves out a shorter last chunk
TradeList_batch_WholeOnly(ts, size) ==
    [k \in 1 .. (Len(ts) \div size) |-> SubSeq(ts, (k - 1) * size + 1, k * size)]

\* TradeList.batch: for i in range(0, len(trades), size): trades[i : i + size]
TradeList_batch(ts, size) ==
    [k \in 1 .. ((Len(ts) + size - 1) \div size) |->
        SubSeq(ts, (k - 1) * size + 1,
               IF k * size < Len(ts) THEN k * size ELSE Len(ts))]

\* TradeList._create_dynamodb_attributes
_create_dynamodb_attributes(trade) ==
    [Ticker |-> [S |-> trade.ticker],
     ExecutedAt |-> [N |-> trade.executed_at],
     Exchange |-> [S |-> trade.exchange],
     Size |-> [N |-> trade.size],
     Price |-> [N |-> trade.price],
     ProducerProcessedAt |-> [N |-> trade.producer_processed_at]]

\* TradeList._create_dynamodb_put_request
_create_dynamodb_put_request(trade) ==
    [PutRequest |-> [Item |-> _create_dynamodb_attributes(trade)]]

TradeListInit ==
    /\ tpc = "new"
    /\ trades = <<>>
    /\ batch_arg = 0
    /\ batches = <<>>
    /\ writes = <<>>
    /\ texc = NoExc

\* TradeList.__init__: self.trades = trades
TradeList_init ==
    /\ tpc = "new"
    /\ \E ts \in TradeLists : trades' = ts
    /\ tpc' = "ready"
    /\ UNCHANGED <<batch_arg, batches, writes, texc>>
    /\ UNCHANGED <<clientVars, deliveryVars, writerVars, decodeVars, handlerVars, normalizerVars, sessionVars, mainVars, stampVars>>

\* TradeList.batch(size) is called on the list
call_batch ==
    /\ tpc = "ready"
    /\ \E size \in BatchSizes :
          /\ batch_arg' = size
          /\ batches' = TradeList_batch(trades, size)
    /\ UNCHANGED <<tpc, trades, writes, texc>>
    /\ UNCHANGED <<clientVars, deliveryVars, writerVars, decodeVars, handlerVars, normalizerVars, sessionVars, mainVars, stampVars>>

\* TradeList.put_to_dynamodb(table): one put request per trade of self.trades,
\* all of them under request_items[table], handed to one batch_write_item call
\* which answers or raises; the answer of batch_write_item has no
\* "UnprocessedKeys" entry, so the wrapper returns
TradeList_put_to_dynamodb ==
    /\ tpc = "ready"
    /\ writes' = Append(writes,
                        [i \in 1 .. Len(trades) |->
                            _create_dynamodb_put_request(trades[i])])
    /\ \/ tpc' = "returned" /\ UNCHANGED texc
       \/ tpc' = "raised" /\ texc' = ClientError("InternalServerError")
    /\ UNCHANGED <<trades, batch_arg, batches>>
    /\ UNCHANGED <<clientVars, deliveryVars, writerVars, decodeVars, handlerVars, normalizerVars, sessionVars, mainVars, stampVars>>

TradeListNext ==
    \/ TradeList_init
    \/ call_batch
    \/ TradeList_put_to_dynamodb

---------------------------------------------------------------------------
(* String and datetime primitives used by TradeBatch.compress and RawTrades *)

\* s.find(sub) + 1: position of the first occurrence of sub in s, 0 when none
StrFind(s, sub) ==
    LET I == {i \in 1 .. (Len(s) - Len(sub) + 1) :
                 SubSeq(s, i, i + Len(sub) - 1) = sub}
    IN  IF I = {} THEN 0 ELSE CHOOSE i \in I : \A j \in I : i <= j

RECURSIVE StrSplit(_, _)
\* s.split(sep)
StrSplit(s, sep) ==
    LET i == StrFind(s, sep)
    IN  IF i = 0 THEN <<s>>
        ELSE <<SubSeq(s, 1, i - 1)>> \o StrSplit(SubSeq(s, i + Len(sep), Len(s)), sep)

RECURSIVE StrJoin(_, _)
\* sep.join(strings)
StrJoin(strings, sep) ==
    IF strings = <<>> THEN ""
    ELSE IF Len(strings) = 1 THEN strings[1]
    ELSE strings[1] \o sep \o StrJoin(Tail(strings), sep)

RECURSIVE StrStrip(_, _)
\* s.strip(c) for a one-character c: leading and trailing c removed
StrStrip(s, c) ==
    IF Len(s) > 0 /\ SubSeq(s, 1, 1) = c THEN StrStrip(SubSeq(s, 2, Len(s)), c)
    ELSE IF Len(s) > 0 /\ SubSeq(s, Len(s), Len(s)) = c
         THEN StrStrip(SubSeq(s, 1, Len(s) - 1), c)
         ELSE s

RECURSIVE readlines(_)
\* BytesIO.readlines(): the lines of the text, each with its "\n" when it has one
readlines(s) ==
    IF s = "" THEN <<>>
    ELSE LET i == StrFind(s, "\n")
         IN  IF i = 0 THEN <<s>>
             ELSE <<SubSeq(s, 1, i)>> \o readlines(SubSeq(s, i + 1, Len(s)))

DigitChars == <<"0", "1", "2", "3", "4", "5", "6", "7", "8", "9">>

IsDigits(s) ==
    /\ Len(s) > 0
    /\ \A i \in 1 .. Len(s) : \E d \in 1 .. 10 : SubSeq(s, i, i) = DigitChars[d]

RECURSIVE StrToInt(_)
\* int(s) for a string of decimal digits
StrToInt(s) ==
    IF s = "" THEN 0
    ELSE StrToInt(SubSeq(s, 1, Len(s) - 1)) * 10
         + (CHOOSE d \in 0 .. 9 : DigitChars[d + 1] = SubSeq(s, Len(s), Len(s)))

\* a float that carries whole seconds and microseconds, as datetime.timestamp()
\* returns it
Float(sec, micro) == [sec |-> sec, micro |-> micro]

RECURSIVE StripTrailingZeros(_)
StripTrailingZeros(s) ==
    IF Len(s) > 1 /\ SubSeq(s, Len(s), Len(s)) = "0"
    THEN StripTrailingZeros(SubSeq(s, 1, Len(s) - 1))
    ELSE s

\* str(float): the shortest decimal that reads back as the same float, which
\* for a timestamp with microseconds is its six decimals less trailing zeros
FloatStr(f) ==
    ToString(f.sec) \o "."
        \o StripTrailingZeros(SubSeq(ToString(1000000 + f.micro), 2, 7))

\* days from 1970-01-01 to the date of the proleptic Gregorian calendar
DaysFromCivil(year, month, day) ==
    LET y == IF month <= 2 THEN year - 1 ELSE year
        era == y \div 400
        yoe == y - era * 400
        doy == (153 * (IF month > 2 THEN month - 3 ELSE month + 9) + 2) \div 5 + day - 1
        doe == yoe * 365 + yoe \div 4 - yoe \div 100 + doy
    IN  era * 146097 + doe - 719468

\* the texts datetime.fromisoformat accepts for a naive datetime:
\* YYYY-MM-DD, YYYY-MM-DDTHH:MM:SS and YYYY-MM-DDTHH:MM:SS.ffffff
IsIsoFormat(s) ==
    /\ Len(s) \in {10, 19, 26}
    /\ IsDigits(SubSeq(s, 1, 4)) /\ SubSeq(s, 5, 5) = "-"
    /\ IsDigits(SubSeq(s, 6, 7)) /\ SubSeq(s, 8, 8) = "-"
    /\ IsDigits(SubSeq(s, 9, 10))
    /\ StrToInt(SubSeq(s, 6, 7)) \in 1 .. 12
    /\ StrToInt(SubSeq(s, 9, 10)) \in 1 .. 31
    /\ Len(s) >= 19 =>
          /\ SubSeq(s, 11, 11) = "T"
          /\ IsDigits(SubSeq(s, 12, 13)) /\ SubSeq(s, 14, 14) = ":"
          /\ IsDigits(SubSeq(s, 15, 16)) /\ SubSeq(s, 17, 17) = ":"
          /\ IsDigits(SubSeq(s, 18, 19))
          /\ StrToInt(SubSeq(s, 12, 13)) \in 0 .. 23
          /\ StrToInt(SubSeq(s, 15, 16)) \in 0 .. 59
          /\ StrToInt(SubSeq(s, 18, 19)) \in 0 .. 59
    /\ Len(s) = 26 => SubSeq(s, 20, 20) = "." /\ IsDigits(SubSeq(s, 21, 26))

\* datetime.fromisoformat(s).timestamp() of a naive datetime: the wall-clock
\* time is read in the local time zone of the process, offset seconds east of UTC
IsoTimestamp(s, offset) ==
    Float(DaysFromCivil(StrToInt(SubSeq(s, 1, 4)), StrToInt(SubSeq(s, 6, 7)),
                        StrToInt(SubSeq(s, 9, 10))) * 86400
          + (IF Len(s) >= 19
             THEN StrToInt(SubSeq(s, 12, 13)) * 3600
                  + StrToInt(SubSeq(s, 15, 16)) * 60 + StrToInt(SubSeq(s, 18, 19))
             ELSE 0)
          - offset,
          IF Len(s) = 26 THEN StrToInt(SubSeq(s, 21, 26)) ELSE 0)

---------------------------------------------------------------------------
(* JSON lines: json.dumps of a TradeMessage and json.loads of a line *)

\* a TradeMessage as the dataclass holds it: the five parsed fields and the
\* processed_at stamp of its default factory
StampedTradeMessage(ticker, date, exchange, size, price, processed_at) ==
    [kind |-> "TradeMessage", ticker |-> ticker, date |-> ensure_timestamp(date),
     exchange |-> exchange, size |-> size, price |-> price,
     processed_at |-> processed_at]

\* json.dumps of a str without characters that need escaping
JsonString(s) == "\"" \o s \o "\""

\* json.dumps of a float field holding a whole number: repr(float)
JsonFloat(n) == FloatStr(Float(n, 0))

\* mutation of json_dumps: the values of size and price change places
json_dumps_Swapped(trade) ==
    "{" \o "\"ticker\": " \o JsonString(trade.ticker)
        \o ", \"date\": " \o JsonString(trade.date)
        \o ", \"exchange\": " \o JsonString(trade.exchange)
        \o ", \"size\": " \o JsonFloat(trade.price)
        \o ", \"price\": " \o JsonFloat(trade.size)
        \o ", \"processed_at\": " \o JsonString(trade.processed_at)
        \o "}"

\* json.dumps(trade, default=pydantic_encoder): the fields in declaration order
json_dumps(trade) ==
    "{" \o "\"ticker\": " \o JsonString(trade.ticker)
        \o ", \"date\": " \o JsonString(trade.date)
        \o ", \"exchange\": " \o JsonString(trade.exchange)
        \o ", \"size\": " \o JsonFloat(trade.size)
        \o ", \"price\": " \o JsonFloat(trade.price)
        \o ", \"processed_at\": " \o JsonString(trade.processed_at)
        \o "}"

NoJson == [ok |-> FALSE, type |-> "", v |-> ""]

\* json.loads of one scalar: a string without escapes, an int, or a float,
\* whose value is kept as str() prints it
JsonScalar(text) ==
    LET n == Len(text)
        dot == StrFind(text, ".")
    IN  IF n >= 2 /\ SubSeq(text, 1, 1) = "\"" /\ SubSeq(text, n, n) = "\""
        THEN IF StrFind(SubSeq(text, 2, n - 1), "\"") = 0
             THEN [ok |-> TRUE, type |-> "str", v |-> SubSeq(text, 2, n - 1)]
             ELSE NoJson
        ELSE IF IsDigits(text) THEN [ok |-> TRUE, type |-> "int", v |-> text]
        ELSE IF dot > 1 /\ IsDigits(SubSeq(text, 1, dot - 1))
                /\ IsDigits(SubSeq(text, dot + 1, n))
        THEN [ok |-> TRUE, type |-> "float",
              v |-> SubSeq(text, 1, dot) \o StripTrailingZeros(SubSeq(text, dot + 1, n))]
        ELSE NoJson

\* one "key": value member of an object
JsonMember(text) ==
    LET i == StrFind(text, "\": ")
    IN  IF i > 1 /\ SubSeq(text, 1, 1) = "\""
           /\ StrFind(SubSeq(text, 2, i - 1), "\"") = 0
        THEN [key |-> SubSeq(text, 2, i - 1),
              value |-> JsonScalar(SubSeq(text, i + 3, Len(text)))]
        ELSE [key |-> "", value |-> NoJson]

JSONDecodeError == Exc("JSONDecodeError", 0, "")

\* json.loads(line) for a flat object as json.dumps writes it: the members in
\* order, or JSONDecodeError for a text that is not a JSON document
json_loads(line) ==
    LET n == Len(line)
        body == SubSeq(line, 2, n - 1)
        texts == IF body = "" THEN <<>> ELSE StrSplit(body, ", ")
        members == [i \in 1 .. Len(texts) |-> JsonMember(texts[i])]
    IN  IF n >= 2 /\ SubSeq(line, 1, 1) = "{" /\ SubSeq(line, n, n) = "}"
           /\ \A i \in 1 .. Len(members) : members[i].value.ok
        THEN [ok |-> TRUE, members |-> members]
        ELSE [ok |-> FALSE, members |-> <<>>]

\* key in dict
HasKey(dict, key) == \E i \in 1 .. Len(dict) : dict[i].key = key

\* dict[key]: the value of the last member with that key
GetItem(dict, key) ==
    dict[CHOOSE i \in 1 .. Len(dict) :
            /\ dict[i].key = key
            /\ \A j \in 1 .. Len(dict) : dict[j].key = key => j <= i].value

---------------------------------------------------------------------------
(* Producer TradeBatch.compress, consumer GzipCompressedTrades.decompress    *)
(* and RawTrades.parse                                                       *)

MaxLines == 2

\* processed_at stamps of the producer: _formatted_utc_now()
ProcessedAts == {"2022-01-01T00:02:00.250000Z"}

\* time zones the consumer process can run in
LocalOffsets == {0, 3600}

\* values of datetime.utcnow().timestamp() when parse runs, in whole seconds
Clocks == {1640995400}

\* the valid trade records a batch is made of
TradeMessages ==
    {StampedTradeMessage(r.data[2], r.data[3], r.data[4], r.data[5], r.data[6], p) :
        r \in {q \in TradeRecords : ~ensure_timestamp_raises(q.data[3])},
        p \in ProcessedAts}

TradeBatches == UNION {[1 .. n -> TradeMessages] : n \in 0 .. MaxLines}

\* gzip.compress / gzip.decompress: the member carries the data; bytes that are
\* not a gzip member make decompress raise BadGzipFile
gzip_compress(data) == [gzip |-> TRUE, data |-> data]
BadGzipFile == Exc("BadGzipFile", 0, "")
AttributeError == Exc("AttributeError", 0, "")
ValueError == Exc("ValueError", 0, "")

\* mutation of TradeBatch_compress: the documents are joined last first
TradeBatch_compress_Reversed(b) ==
    gzip_compress(StrJoin([i \in 1 .. Len(b) |-> json_dumps(b[Len(b) + 1 - i])], "\n"))

\* TradeBatch.compress: one JSON document per trade joined by "\n", encoded as
\* UTF-8 (the same characters for this ASCII text), then gzip
TradeBatch_compress(b) ==
    gzip_compress(StrJoin([i \in 1 .. Len(b) |-> json_dumps(b[i])], "\n"))

\* lines of objects the producer did not write: a document that is not JSON,
\* one without the keys of a trade, one with a date that is no ISO 8601 text
OtherLines ==
    {json_dumps(CHOOSE t \in TradeMessages : TRUE),
     "not json",
     "{\"ticker\": \"BTC\"}",
     "{\"ticker\": \"BTC\", \"date\": \"yesterday\"}"}

OtherFiles ==
    {gzip_compress(StrJoin(ls, "\n")) :
        ls \in UNION {[1 .. n -> OtherLines] : n \in 1 .. MaxLines}}
    \cup {[gzip |-> FALSE, data |-> "not json"]}

\* RawTrades._iso8601_date_to_unix raises: date.strip needs a str, and
\* fromisoformat a text in ISO 8601 form
_iso8601_date_to_unix_exc(value) ==
    IF value.type # "str" THEN AttributeError
    ELSE IF ~IsIsoFormat(StrStrip(value.v, "Z")) THEN ValueError
    ELSE NoExc

\* RawTrades._iso8601_date_to_unix
_iso8601_date_to_unix(date, offset) == IsoTimestamp(StrStrip(date, "Z"), offset)

\* the exception RawTrades._parse_trade raises for a dict, NoExc when it returns
_parse_trade_exc(trade) ==
    IF ~HasKey(trade, "ticker") \/ ~HasKey(trade, "date") THEN KeyError
    ELSE IF _iso8601_date_to_unix_exc(GetItem(trade, "date")) # NoExc
    THEN _iso8601_date_to_unix_exc(GetItem(trade, "date"))
    ELSE IF \E k \in {"exchange", "size", "price", "processed_at"} : ~HasKey(trade, k)
    THEN KeyError
    ELSE _iso8601_date_to_unix_exc(GetItem(trade, "processed_at"))

\* RawTrades._parse_trade: the Trade built from a dict; lambda_processed_at is
\* the clock when the Trade is constructed
_parse_trade(trade, offset, now) ==
    Trade(GetItem(trade, "ticker").v,
          FloatStr(_iso8601_date_to_unix(GetItem(trade, "date").v, offset)),
          GetItem(trade, "exchange").v,
          GetItem(trade, "size").v,
          GetItem(trade, "price").v,
          FloatStr(_iso8601_date_to_unix(GetItem(trade, "processed_at").v, offset)),
          FloatStr(now))

\* mutation of LinesToParse: a line that does not parse is skipped
LinesToParse_SkipBad(lines) ==
    SelectSeq(lines, LAMBDA l : /\ json_loads(l).ok
                                /\ _parse_trade_exc(json_loads(l).members) = NoExc)

\* the lines json.loads and _parse_trade are applied to: every line of the file
LinesToParse(lines) == lines

\* RawTrades.parse: the exception it raises, NoExc when it returns.  Every line
\* goes through json.loads before the first _parse_trade call
parse_exc(text) ==
    LET all == readlines(text)
        lines == LinesToParse([i \in 1 .. Len(all) |-> StrStrip(all[i], "\n")])
        docs == [i \in 1 .. Len(lines) |-> json_loads(lines[i])]
        bad == {i \in 1 .. Len(docs) : _parse_trade_exc(docs[i].members) # NoExc}
    IN  IF \E i \in 1 .. Len(docs) : ~docs[i].ok THEN JSONDecodeError
        ELSE IF bad # {}
        THEN _parse_trade_exc(docs[CHOOSE i \in bad : \A j \in bad : i <= j].members)
        ELSE NoExc

\* RawTrades.parse: the trades of the TradeList it returns
parse_trades(text, offset, clock) ==
    LET all == readlines(text)
        lines == LinesToParse([i \in 1 .. Len(all) |-> StrStrip(all[i], "\n")])
    IN  [i \in 1 .. Len(lines) |->
            _parse_trade(json_loads(lines[i]).members, offset, Float(clock, i))]

NoFile == [gzip |-> FALSE, data |-> ""]

DecodeInit ==
    /\ gpc = "new"
    /\ sent = <<>>
    /\ file = NoFile
    /\ raw = ""
    /\ tz = 0
    /\ parsed = <<>>
    /\ gexc = NoExc

\* the producer compresses a batch and the object lands in the bucket
compress ==
    /\ gpc = "new"
    /\ \E b \in TradeBatches :
          /\ sent' = b
          /\ file' = TradeBatch_compress(b)
    /\ gpc' = "file"
    /\ UNCHANGED <<raw, tz, parsed, gexc>>
    /\ UNCHANGED <<clientVars, deliveryVars, writerVars, tradeListVars, handlerVars, normalizerVars, sessionVars, mainVars, stampVars>>

\* the bucket holds an object the producer did not write
other_object ==
    /\ gpc = "new"
    /\ \E f \in OtherFiles : file' = f
    /\ gpc' = "file"
    /\ UNCHANGED <<sent, raw, tz, parsed, gexc>>
    /\ UNCHANGED <<clientVars, deliveryVars, writerVars, tradeListVars, handlerVars, normalizerVars, sessionVars, mainVars, stampVars>>

\* GzipCompressedTrades.decompress
decompress ==
    /\ gpc = "file"
    /\ IF file.gzip
       THEN raw' = file.data /\ gpc' = "raw" /\ UNCHANGED gexc
       ELSE gexc' = BadGzipFile /\ gpc' = "raised" /\ UNCHANGED raw
    /\ UNCHANGED <<sent, file, tz, parsed>>
    /\ UNCHANGED <<clientVars, deliveryVars, writerVars, tradeListVars, handlerVars, normalizerVars, sessionVars, mainVars, stampVars>>

\* RawTrades.parse, in a process of some local time zone at some clock value
parse ==
    /\ gpc = "raw"
    /\ \E offset \in LocalOffsets, clock \in Clocks :
          /\ tz' = offset
          /\ IF parse_exc(raw) = NoExc
             THEN /\ parsed' = parse_trades(raw, offset, clock)
                  /\ gpc' = "parsed"
                  /\ UNCHANGED gexc
             ELSE /\ gexc' = parse_exc(raw)
                  /\ gpc' = "raised"
                  /\ UNCHANGED parsed
    /\ UNCHANGED <<sent, file, raw>>
    /\ UNCHANGED <<clientVars, deliveryVars, writerVars, tradeListVars, handlerVars, normalizerVars, sessionVars, mainVars, stampVars>>

DecodeNext ==
    \/ compress
    \/ other_object
    \/ decompress
    \/ parse

---------------------------------------------------------------------------
(* Consumer entry point: lambda/app/src/app.py lambda_handler and            *)
(* utils/functions.py                                                        *)

\* the bucket and object key written in lambda_handler
HandlerBucket == "s3-jamie-general-data-lake"
HandlerKey == "bronze/crypto/2022/03/15/14/firehose-jamie-crypto-stream-1-2022-03-15-14-13-47-7827cb19-975c-47f5-a732-8e77e7e27d3f"

\* S3 change events: the bucket name and the URL-encoded key of record[0]
Events ==
    [bucket : {HandlerBucket, "s3-other-bucket"},
     key : {HandlerKey, "bronze%2Fcrypto%2Fa+b", "bronze/crypto/c"}]

NoEvent == [bucket |-> "", key |-> ""]
NoCall == [Bucket |-> "", Key |-> ""]

\* escapes unquote_plus decodes in the keys above
PercentCodes == <<[code |-> "%2F", char |-> "/"], [code |-> "%3A", char |-> ":"],
                  [code |-> "%20", char |-> " "], [code |-> "%2B", char |-> "+"]>>

\* s.replace(old, new)
StrReplaceWith(s, old, new) == StrJoin(StrSplit(s, old), new)

RECURSIVE unquote(_, _)
\* urllib.parse.unquote: the first n escapes of PercentCodes decoded
unquote(s, n) ==
    IF n = 0 THEN s
    ELSE StrReplaceWith(unquote(s, n - 1), PercentCodes[n].code, PercentCodes[n].char)

\* urllib.parse.unquote_plus: string.replace("+", " "), then unquote
unquote_plus(s) == unquote(StrReplaceWith(s, "+", " "), Len(PercentCodes))

\* utils.functions.get_event_bucket_and_object_key
get_event_bucket_and_object_key(e) ==
    [Bucket |-> e.bucket, Key |-> unquote_plus(e.key)]

\* LambdaResponse(isBase64Encoded=False, statusCode=..., body=...)
LambdaResponse(statusCode, body) ==
    [isBase64Encoded |-> FALSE, statusCode |-> statusCode, body |-> body]

NoResp == [isBase64Encoded |-> FALSE, statusCode |-> 0, body |-> ""]

\* objects get_object can return for the key
HandlerFiles == {TradeBatch_compress(b) : b \in TradeBatches} \cup OtherFiles

\* datetime.strptime(value, "%Y-%m-%dT%H:%M:%S.%fZ") raises: TypeError for a
\* value that is not a str, ValueError for a text of another form
strptime_exc(value) ==
    IF value.type # "str" THEN TypeError
    ELSE IF ~(/\ Len(value.v) \in 22 .. 27
              /\ SubSeq(value.v, Len(value.v), Len(value.v)) = "Z"
              /\ IsIsoFormat(SubSeq(value.v, 1, 19))
              /\ SubSeq(value.v, 20, 20) = "."
              /\ IsDigits(SubSeq(value.v, 21, Len(value.v) - 1)))
    THEN ValueError
    ELSE NoExc

\* datetime.strptime(text, "%Y-%m-%dT%H:%M:%S.%fZ").timestamp(): %f takes one to
\* six digits, padded on the right
strptime_timestamp(text, offset) ==
    IsoTimestamp(SubSeq(text, 1, 20)
                     \o SubSeq(SubSeq(text, 21, Len(text) - 1) \o "00000", 1, 6),
                 offset)

\* the exception the loop body of parse_file_to_trade_list raises for a dict
parse_file_trade_exc(trade) ==
    IF ~HasKey(trade, "ticker") \/ ~HasKey(trade, "date") THEN KeyError
    ELSE IF strptime_exc(GetItem(trade, "date")) # NoExc
    THEN strptime_exc(GetItem(trade, "date"))
    ELSE IF \E k \in {"exchange", "size", "price", "processed_at"} : ~HasKey(trade, k)
    THEN KeyError
    ELSE strptime_exc(GetItem(trade, "processed_at"))

\* utils.functions.parse_file_to_trade_list: the exception it raises
parse_file_to_trade_list_exc(text) ==
    LET all == readlines(text)
        docs == [i \in 1 .. Len(all) |-> json_loads(StrStrip(all[i], "\n"))]
        bad == {i \in 1 .. Len(docs) : parse_file_trade_exc(docs[i].members) # NoExc}
    IN  IF \E i \in 1 .. Len(docs) : ~docs[i].ok THEN JSONDecodeError
        ELSE IF bad # {}
        THEN parse_file_trade_exc(docs[CHOOSE i \in bad : \A j \in bad : i <= j].members)
        ELSE NoExc

\* utils.functions.parse_file_to_trade_list: the list it returns
parse_file_to_trade_list(text, offset, clock) ==
    LET all == readlines(text)
        docs == [i \in 1 .. Len(all) |-> json_loads(StrStrip(all[i], "\n")).members]
    IN  [i \in 1 .. Len(docs) |->
            Trade(GetItem(docs[i], "ticker").v,
                  strptime_timestamp(GetItem(docs[i], "date").v, offset),
                  GetItem(docs[i], "exchange").v,
                  GetItem(docs[i], "size").v,
                  GetItem(docs[i], "price").v,
                  strptime_timestamp(GetItem(docs[i], "processed_at").v, offset),
                  Float(clock, i))]

\* os.environ["DYNAMODB_TABLE_NAME"]
dynamodb_table == "trades"

\* repr() of a str without quotes in it
Repr(s) == "'" \o s \o "'"

\* utils.functions.put_trades_to_dynamodb(trades, table): the batch_write_item
\* calls it issues. Its body is `client = boto3.client("dynamodb")` and
\* _create_put_request_batches is `pass`: none
put_trades_to_dynamodb(ts, table) == <<>>

\* mutation of HandlerGoes: the handler goes on to the next step whatever the
\* step raised
HandlerGoes_On(step, e) ==
    CASE step = "read" -> "decompress"
      [] step = "decompress" -> "parse"
      [] step = "parse" -> "write"
      [] OTHER -> "returned"

\* where lambda_handler is after `step` ended with exception e (NoExc when it
\* returned): at the next step, at a return (the last step, and the two
\* `except ClientError` branches), or left by the exception
HandlerGoes(step, e) ==
    IF e = NoExc
    THEN CASE step = "read" -> "decompress"
           [] step = "decompress" -> "parse"
           [] step = "parse" -> "write"
           [] OTHER -> "returned"
    ELSE IF step \in {"read", "write"} /\ e.type = "ClientError" THEN "returned"
    ELSE "raised"

HandlerInit ==
    /\ hpc = "idle"
    /\ event = NoEvent
    /\ s3get = NoCall
    /\ hfile = NoFile
    /\ hraw = ""
    /\ htrades = <<>>
    /\ hresp = NoResp
    /\ hexc = NoExc
    /\ hsteps = <<>>
    /\ hwrites = <<>>

\* the function is invoked with an S3 change event
invoke ==
    /\ hpc = "idle"
    /\ \E e \in Events : event' = e
    /\ hpc' = "read"
    /\ UNCHANGED <<s3get, hfile, hraw, htrades, hresp, hexc, hsteps, hwrites>>
    /\ UNCHANGED <<clientVars, deliveryVars, writerVars, tradeListVars, decodeVars, normalizerVars, sessionVars, mainVars, stampVars>>

\* bucket, object_key = the two literals; uf.get_file_from_s3(bucket, object_key)
\* inside try / except ClientError, which returns the 400 response
handler_get_file ==
    /\ hpc = "read"
    /\ s3get' = [Bucket |-> HandlerBucket, Key |-> HandlerKey]
    /\ \/ /\ hresp' = LambdaResponse(400, "Failed to read object " \o Repr(HandlerKey)
                          \o " from S3 bucket " \o Repr(HandlerBucket) \o ".")
          /\ hpc' = HandlerGoes("read", ClientError("NoSuchKey"))
          /\ UNCHANGED hfile
       \/ /\ \E f \in HandlerFiles : hfile' = f
          /\ hpc' = HandlerGoes("read", NoExc)
          /\ UNCHANGED hresp
    /\ hsteps' = Append(hsteps, "get_file_from_s3")
    /\ UNCHANGED <<event, hraw, htrades, hexc, hwrites>>
    /\ UNCHANGED <<clientVars, deliveryVars, writerVars, tradeListVars, decodeVars, normalizerVars, sessionVars, mainVars, stampVars>>

\* uf.decompress_file(file), outside any try: gzip.decompress raises BadGzipFile
\* for bytes that are not gzip and the exception leaves the handler
handler_decompress ==
    /\ hpc = "decompress"
    /\ IF hfile.gzip
       THEN hraw' = hfile.data /\ hpc' = HandlerGoes("decompress", NoExc)
            /\ UNCHANGED hexc
       ELSE hexc' = BadGzipFile /\ hpc' = HandlerGoes("decompress", BadGzipFile)
            /\ UNCHANGED hraw
    /\ hsteps' = Append(hsteps, "decompress_file")
    /\ UNCHANGED <<event, s3get, hfile, htrades, hresp, hwrites>>
    /\ UNCHANGED <<clientVars, deliveryVars, writerVars, tradeListVars, decodeVars, normalizerVars, sessionVars, mainVars, stampVars>>

\* uf.parse_file_to_trade_list(decompressed_file), outside any try
handler_parse ==
    /\ hpc = "parse"
    /\ IF parse_file_to_trade_list_exc(hraw) = NoExc
       THEN /\ \E offset \in LocalOffsets, clock \in Clocks :
                  htrades' = parse_file_to_trade_list(hraw, offset, clock)
            /\ hpc' = HandlerGoes("parse", NoExc)
            /\ UNCHANGED hexc
       ELSE /\ hexc' = parse_file_to_trade_list_exc(hraw)
            /\ hpc' = HandlerGoes("parse", parse_file_to_trade_list_exc(hraw))
            /\ UNCHANGED htrades
    /\ hsteps' = Append(hsteps, "parse_file_to_trade_list")
    /\ UNCHANGED <<event, s3get, hfile, hraw, hresp, hwrites>>
    /\ UNCHANGED <<clientVars, deliveryVars, writerVars, tradeListVars, decodeVars, normalizerVars, sessionVars, mainVars, stampVars>>

\* uf.put_trades_to_dynamodb(trades, dynamodb_table): the function only creates
\* a boto3 client and returns, so no ClientError reaches the except clause and
\* the handler returns the 200 response
handler_put_trades ==
    /\ hpc = "write"
    /\ hresp' = LambdaResponse(200, "Successfully put " \o ToString(Len(htrades))
                    \o " trade records to DynamoDB table " \o Repr(dynamodb_table) \o ".")
    /\ hpc' = HandlerGoes("write", NoExc)
    /\ hsteps' = Append(hsteps, "put_trades_to_dynamodb")
    /\ hwrites' = hwrites \o put_trades_to_dynamodb(htrades, dynamodb_table)
    /\ UNCHANGED <<event, s3get, hfile, hraw, htrades, hexc>>
    /\ UNCHANGED <<clientVars, deliveryVars, writerVars, tradeListVars, decodeVars, normalizerVars, sessionVars, mainVars, stampVars>>

HandlerNext ==
    \/ invoke
    \/ handler_get_file
    \/ handler_decompress
    \/ handler_parse
    \/ handler_put_trades

---------------------------------------------------------------------------
(* The date validator: tiingo/data_structs.py TradeMessage.ensure_timestamp  *)

\* the vendor's offsets, fractional groups and wall-clock parts
Offsets == {"+00:00", "+01:00", "-05:00"}
Fractions == {"", ".123456", ".000001"}
WallClocks ==
    {d \o "T" \o h \o ":00:" \o s :
        d \in {"2022-01-01", "2024-02-29"}, h \in {"00", "23"}, s \in {"00", "13"}}

\* vendor timestamps YYYY-MM-DDTHH:MM:SS[.ffffff]+HH:MM
VendorTimestamps == {w \o f \o o : w \in WallClocks, f \in Fractions, o \in Offsets}

\* other texts a date field can hold
OtherTimestamps ==
    {"", "2022-01-01", "2022-01-01T00:00:00Z", "2022-01-01T00:00:00.123+00:00"}

NormalizerInit ==
    /\ npc = "new"
    /\ date_arg = ""
    /\ normalized = ""
    /\ nexc = NoExc

\* a TradeMessage is constructed: pydantic hands its date to the validator
validate_date ==
    /\ npc = "new"
    /\ \E ts \in VendorTimestamps \cup OtherTimestamps : date_arg' = ts
    /\ npc' = "called"
    /\ UNCHANGED <<normalized, nexc>>
    /\ UNCHANGED <<clientVars, deliveryVars, writerVars, tradeListVars, decodeVars, handlerVars, sessionVars, mainVars, stampVars>>

\* TradeMessage.ensure_timestamp(timestamp) returns or raises
call_ensure_timestamp ==
    /\ npc = "called"
    /\ IF ensure_timestamp_raises(date_arg)
       THEN nexc' = KeyError /\ npc' = "raised" /\ UNCHANGED normalized
       ELSE normalized' = ensure_timestamp(date_arg) /\ npc' = "returned"
            /\ UNCHANGED nexc
    /\ UNCHANGED date_arg
    /\ UNCHANGED <<clientVars, deliveryVars, writerVars, tradeListVars, decodeVars, handlerVars, sessionVars, mainVars, stampVars>>

NormalizerNext ==
    \/ validate_date
    \/ call_ensure_timestamp

---------------------------------------------------------------------------
(* The earlier subscription routines: producer/app.py create_websocket and  *)
(* producer/tiingo_session.py TiingoSession.subscribe_and_flush             *)

SessionVariants == {"create_websocket", "subscribe_and_flush"}

WebSocketSubscribeError(code, msg) == Exc("WebSocketSubscribeError", code, msg)

\* json.loads(ws.recv())["response"]: a trade update carries "data" and no
\* "response", so the subscript raises KeyError; otherwise the code test
response_exc(record) ==
    IF record.messageType = "A" THEN KeyError
    ELSE IF record.code # 200 THEN WebSocketSubscribeError(record.code, record.message)
    ELSE NoExc

SessionInit ==
    /\ spc = "idle"
    /\ svariant = "create_websocket"
    /\ sframes = <<>>
    /\ sreads = <<>>
    /\ sexc = NoExc

\* ws.connect(url): in create_websocket the first statement, in TiingoSession
\* a statement of the class body
session_connect ==
    /\ spc = "idle"
    /\ \E v \in SessionVariants : svariant' = v
    /\ \E ok \in BOOLEAN :
          IF ok THEN spc' = "connected" /\ sexc' = NoExc
                ELSE spc' = "raised" /\ sexc' = WebSocketError
    /\ UNCHANGED <<sframes, sreads>>
    /\ UNCHANGED <<clientVars, deliveryVars, writerVars, tradeListVars, decodeVars, handlerVars, normalizerVars, mainVars, stampVars>>

\* ws.send(json.dumps(subscribe))
session_send ==
    /\ spc = "connected"
    /\ sframes' = Append(sframes, SubscribePayload(Token))
    /\ spc' = "sent"
    /\ UNCHANGED <<svariant, sreads, sexc>>
    /\ UNCHANGED <<clientVars, deliveryVars, writerVars, tradeListVars, decodeVars, handlerVars, normalizerVars, mainVars, stampVars>>

\* the first ws.recv() and the test of its code
session_read_response ==
    /\ spc = "sent"
    /\ \E record \in TiingoRecord :
          /\ sreads' = Append(sreads, record)
          /\ sexc' = response_exc(record)
          /\ spc' = IF response_exc(record) # NoExc THEN "raised" ELSE "subscribed"
    /\ UNCHANGED <<svariant, sframes>>
    /\ UNCHANGED <<clientVars, deliveryVars, writerVars, tradeListVars, decodeVars, handlerVars, normalizerVars, mainVars, stampVars>>

\* the second ws.recv(), "the heartbeat response", and the test of its code;
\* then the routine returns
session_read_heartbeat ==
    /\ spc = "subscribed"
    /\ \E record \in TiingoRecord :
          /\ sreads' = Append(sreads, record)
          /\ sexc' = response_exc(record)
          /\ spc' = IF response_exc(record) # NoExc THEN "raised" ELSE "done"
    /\ UNCHANGED <<svariant, sframes>>
    /\ UNCHANGED <<clientVars, deliveryVars, writerVars, tradeListVars, decodeVars, handlerVars, normalizerVars, mainVars, stampVars>>

SessionNext ==
    \/ session_connect
    \/ session_send
    \/ session_read_response
    \/ session_read_heartbeat

---------------------------------------------------------------------------
(* The producer process: producer/app/src/app.py main                       *)

\* @aws_retry() on put_to_kinesis_stream: the default total_retries
AwsRetryTotalRetries == 2

NoPayload == [gzip |-> FALSE, data |-> ""]

\* TradeMessage.processed_at, filled by its default factory
WithProcessedAt(msg, p) ==
    [kind |-> msg.kind, ticker |-> msg.ticker, date |-> msg.date,
     exchange |-> msg.exchange, size |-> msg.size, price |-> msg.price,
     processed_at |-> p]

\* `except clause as e` matches e: the exception classes of tiingo.exceptions
\* derive from Exception only, so a clause matches its own class
Caught(clause, e) == e.type = clause

\* mutation of ExceptBranch: the loop goes on after any exception
ExceptBranch_Continue(clause, e) ==
    [pc |-> "loop", logged |-> Caught(clause, e), exc |-> NoExc]

\* mutation of ExceptBranch: a caught exception is logged and not re-raised
ExceptBranch_Swallow(clause, e) ==
    IF Caught(clause, e) THEN [pc |-> "loop", logged |-> TRUE, exc |-> NoExc]
    ELSE [pc |-> "raised", logged |-> FALSE, exc |-> e]

\* a statement of main inside `try: ... except clause as e:` raised e: the
\* branch logs and re-raises; an exception the clause does not match
\* propagates as it is
ExceptBranch(clause, e) ==
    IF Caught(clause, e) THEN [pc |-> "raised", logged |-> TRUE, exc |-> e]
    ELSE [pc |-> "raised", logged |-> FALSE, exc |-> e]

\* mutation of ComprehensionRaised: the trades read so far are returned
ComprehensionRaised_Partial(b, e) == [ret |-> TradeBatch(b), exc |-> NoExc]

\* get_next_batch: get_next_trade raised e inside the list comprehension after
\* b had been collected: the list is discarded and e propagates
ComprehensionRaised(b, e) == [ret |-> NoRet, exc |-> e]

MainInit ==
    /\ mpc = "idle"
    /\ mbatch_size = 0
    /\ mreads = 0
    /\ mcalls = 0
    /\ mbatch = <<>>
    /\ mcompressed = 0
    /\ mpayload = NoPayload
    /\ mretries = 0
    /\ mappends = 0
    /\ mdelivered = <<>>
    /\ msince = <<>>
    /\ mstep = ""
    /\ mraised = NoExc
    /\ mlogged = FALSE
    /\ mexc = NoExc

\* what main does when the statement `step` raised e inside a try with `clause`
MainRaise(step, clause, e) ==
    /\ mstep' = step
    /\ mraised' = e
    /\ mlogged' = ExceptBranch(clause, e).logged
    /\ mexc' = ExceptBranch(clause, e).exc
    /\ mpc' = ExceptBranch(clause, e).pc

\* load_config_vars()
main_load_config ==
    /\ mpc = "idle"
    /\ \E size \in 0 .. MaxBatch : mbatch_size' = size
    /\ mpc' = "config"
    /\ UNCHANGED <<mainProgress, mainFailure>>
    /\ UNCHANGED <<clientVars, deliveryVars, writerVars, tradeListVars, decodeVars, handlerVars, normalizerVars, sessionVars, stampVars>>

\* token = helpers.get_secrets_manager_secret(secret_name)
main_get_secret ==
    /\ mpc = "config"
    /\ \E a \in {"ok"} \cup ErrorCodes :
          IF a = "ok" THEN mpc' = "secret" /\ UNCHANGED mainFailure
          ELSE MainRaise("get_secret", "ClientError", ClientError(a))
    /\ UNCHANGED <<mbatch_size, mainProgress>>
    /\ UNCHANGED <<clientVars, deliveryVars, writerVars, tradeListVars, decodeVars, handlerVars, normalizerVars, sessionVars, stampVars>>

\* client = TiingoClient(url, token): connect, send the subscribe frame, read
\* and validate one message
main_subscribe ==
    /\ mpc = "secret"
    /\ \E connected \in BOOLEAN, record \in TiingoRecord :
          LET r == get_next_message(record)
          IN  IF ~connected
              THEN /\ MainRaise("subscribe", "TiingoSubscriptionError", WebSocketError)
                   /\ UNCHANGED mreads
              ELSE /\ mreads' = mreads + 1
                   /\ IF r.exc # NoExc
                      THEN MainRaise("subscribe", "TiingoSubscriptionError",
                                     validate_subscription_exc(r.exc))
                      ELSE mpc' = "loop" /\ UNCHANGED mainFailure
    /\ UNCHANGED <<mbatch_size, mcalls, mbatch, mcompressed, mpayload, mretries,
                   mappends, mdelivered, msince>>
    /\ UNCHANGED <<clientVars, deliveryVars, writerVars, tradeListVars, decodeVars, handlerVars, normalizerVars, sessionVars, stampVars>>

\* batch = client.get_next_batch(batch_size): the call and its size test
main_get_next_batch ==
    /\ mpc = "loop"
    /\ mcalls' = mcalls + 1
    /\ mbatch' = <<>>
    /\ IF BatchSizeInvalid(mbatch_size)
       THEN MainRaise("get_next_batch", "TiingoClientError",
                      TiingoBatchSizeError(mbatch_size))
       ELSE mpc' = "batch" /\ UNCHANGED mainFailure
    /\ UNCHANGED <<mbatch_size, mreads, mcompressed, mpayload, mretries, mappends,
                   mdelivered, msince>>
    /\ UNCHANGED <<clientVars, deliveryVars, writerVars, tradeListVars, decodeVars, handlerVars, normalizerVars, sessionVars, stampVars>>

\* get_next_batch returned the list b: compressed_batch = batch.compress()
MainCompress(b) ==
    /\ mcompressed' = mcompressed + 1
    /\ \E p \in ProcessedAts :
          mpayload' = TradeBatch_compress([i \in 1 .. Len(b) |->
                                              WithProcessedAt(b[i], p)])
    /\ mretries' = 0
    /\ mpc' = "put"

\* inside get_next_batch: one message is read by the running get_next_trade
main_read ==
    /\ mpc = "batch"
    /\ RangeHasNext(Len(mbatch), mbatch_size)
    /\ mreads < MaxReads
    /\ mreads' = mreads + 1
    /\ \E record \in TiingoRecord :
          LET r == get_next_message(record)
              c == ComprehensionRaised(mbatch, r.exc)
          IN  IF r.exc # NoExc
              THEN IF c.exc # NoExc
                   THEN /\ MainRaise("get_next_batch", "TiingoClientError", c.exc)
                        /\ UNCHANGED <<mbatch, mcompressed, mpayload, mretries, msince>>
                   ELSE /\ MainCompress(c.ret.batch)
                        /\ UNCHANGED <<mbatch, mainFailure, msince>>
              ELSE /\ mbatch' = IF IsTradeMessage(r.msg) THEN Append(mbatch, r.msg)
                                ELSE mbatch
                   /\ msince' = IF IsTradeMessage(r.msg) THEN Append(msince, r.msg)
                                ELSE msince
                   /\ UNCHANGED <<mpc, mcompressed, mpayload, mretries, mainFailure>>
    /\ UNCHANGED <<mbatch_size, mcalls, mappends, mdelivered>>
    /\ UNCHANGED <<clientVars, deliveryVars, writerVars, tradeListVars, decodeVars, handlerVars, normalizerVars, sessionVars, stampVars>>

\* get_next_batch returns TradeBatch(batch) and main compresses it
main_compress ==
    /\ mpc = "batch"
    /\ ~RangeHasNext(Len(mbatch), mbatch_size)
    /\ MainCompress(TradeBatch(mbatch).batch)
    /\ UNCHANGED <<mbatch_size, mreads, mcalls, mbatch, mappends, mdelivered, msince,
                   mainFailure>>
    /\ UNCHANGED <<clientVars, deliveryVars, writerVars, tradeListVars, decodeVars, handlerVars, normalizerVars, sessionVars, stampVars>>

\* compressed_batch.put_to_kinesis_stream(stream_name): one pass of the
\* aws_retry loop, with its put_record call
main_put_attempt ==
    /\ mpc = "put"
    /\ IF ~LoopTest("aws_retry", mretries, AwsRetryTotalRetries)
       THEN \* the wrapper returns None and response.record_id fails
            /\ MainRaise("put", "ClientError", AttributeError)
            /\ UNCHANGED <<mretries, mappends, mdelivered, msince>>
       ELSE /\ mappends' = mappends + 1
            /\ \E a \in SinkAnswers :
                  IF a.ok
                  THEN /\ mdelivered' = Append(mdelivered, mpayload)
                       /\ msince' = <<>>
                       /\ mpc' = "loop"
                       /\ UNCHANGED <<mretries, mainFailure>>
                  ELSE IF ShouldRetry(a.code, mretries, AwsRetryTotalRetries)
                       THEN /\ mretries' = mretries + 1
                            /\ UNCHANGED <<mpc, mdelivered, msince, mainFailure>>
                       ELSE /\ MainRaise("put", "ClientError", ClientError(a.code))
                            /\ UNCHANGED <<mretries, mdelivered, msince>>
    /\ UNCHANGED <<mbatch_size, mreads, mcalls, mbatch, mcompressed, mpayload>>
    /\ UNCHANGED <<clientVars, deliveryVars, writerVars, tradeListVars, decodeVars, handlerVars, normalizerVars, sessionVars, stampVars>>

MainNext ==
    \/ main_load_config
    \/ main_get_secret
    \/ main_subscribe
    \/ main_get_next_batch
    \/ main_read
    \/ main_compress
    \/ main_put_attempt

---------------------------------------------------------------------------
(* processed_at of a trade record: TradeMessage / TradeData of the producer  *)

MaxClock == 5
MaxStamps == 3

\* the producer modules that build trade records
StampVariants == {"src/tiingo/data_structs.py", "app/tiingo.py", "tiingo.py"}

\* datetime.utcnow() at the c-th reading of the clock; readings are a quarter
\* of a second apart, counted from 2022-01-01T00:02:00
utcnow(c) == [sec |-> (c * 250000) \div 1000000, micro |-> (c * 250000) % 1000000]

\* datetime.strftime(t, "%Y-%m-%dT%H:%M:%S.%fZ")
strftime_utc(t) ==
    "2022-01-01T00:02:" \o SubSeq(ToString(100 + t.sec), 2, 3)
        \o "." \o SubSeq(ToString(1000000 + t.micro), 2, 7) \o "Z"

_formatted_utc_now(c) == strftime_utc(utcnow(c))

\* the class body of TradeMessage / TradeData run at import, at clock c: only
\* app/tiingo.py evaluates strftime(utcnow()) there, as the field's default
TradeMessage_default(variant, c) ==
    IF variant = "app/tiingo.py" THEN _formatted_utc_now(c) ELSE ""

\* processed_at of a record built at clock c: the default factory's call
\* (data_structs.py), the class-level default (app/tiingo.py), or the `now`
\* get_next_trade passes (tiingo.py)
TradeMessage_processed_at(variant, default, c) ==
    IF variant = "app/tiingo.py" THEN default ELSE _formatted_utc_now(c)

StampInit ==
    /\ kpc = "start"
    /\ kvariant = ""
    /\ kclock = 0
    /\ kdefault = ""
    /\ kstamps = <<>>

\* time passes
clock_tick ==
    /\ kclock < MaxClock
    /\ kclock' = kclock + 1
    /\ UNCHANGED <<kpc, kvariant, kdefault, kstamps>>
    /\ UNCHANGED <<clientVars, deliveryVars, writerVars, tradeListVars, decodeVars, handlerVars, normalizerVars, sessionVars, mainVars>>

\* the producer starts: its module is imported and the class body runs
import_module ==
    /\ kpc = "start"
    /\ \E v \in StampVariants :
          /\ kvariant' = v
          /\ kdefault' = TradeMessage_default(v, kclock)
    /\ kpc' = "imported"
    /\ UNCHANGED <<kclock, kstamps>>
    /\ UNCHANGED <<clientVars, deliveryVars, writerVars, tradeListVars, decodeVars, handlerVars, normalizerVars, sessionVars, mainVars>>

\* a trade message is turned into a record: TradeMessage(ticker, date,
\* exchange, size, price) or TradeData(..., now)
new_TradeMessage ==
    /\ kpc = "imported"
    /\ Len(kstamps) < MaxStamps
    /\ kstamps' = Append(kstamps,
                         [at |-> kclock,
                          processed_at |->
                              TradeMessage_processed_at(kvariant, kdefault, kclock)])
    /\ UNCHANGED <<kpc, kvariant, kclock, kdefault>>
    /\ UNCHANGED <<clientVars, deliveryVars, writerVars, tradeListVars, decodeVars, handlerVars, normalizerVars, sessionVars, mainVars>>

StampNext ==
    \/ clock_tick
    \/ import_module
    \/ new_TradeMessage

---------------------------------------------------------------------------
(* Specifications *)

Init == ClientInit /\ DeliveryInit /\ WriterInit /\ TradeListInit /\ DecodeInit
        /\ HandlerInit /\ NormalizerInit /\ SessionInit /\ MainInit /\ StampInit

SpecClient == Init /\ [][ClientNext]_vars
SpecDelivery == Init /\ [][DeliveryNext]_vars
SpecWriter == Init /\ [][WriterNext]_vars
SpecTradeList == Init /\ [][TradeListNext]_vars
SpecDecode == Init /\ [][DecodeNext]_vars
SpecHandler == Init /\ [][HandlerNext]_vars
SpecNormalizer == Init /\ [][NormalizerNext]_vars
SpecSession == Init /\ [][SessionNext]_vars
SpecMain == Init /\ [][MainNext]_vars
SpecStamp == Init /\ [][StampNext]_vars

---------------------------------------------------------------------------
(* Properties of the client *)

\* the constructor has returned a client
Constructed == cpc \in {"ready", "trade", "batch", "batch_trade"}

\* the record read by _validate_subscription is the last one read
HandshakeJustRead == nreads = 1

IsAck200(record) == record.messageType = "I" /\ record.code = 200

\* C1: construction succeeds only if the one response read after the subscribe
\* frame is a SubscriptionAck (messageType I) with code 200; for every other
\* first response construction fails with a subscription error and the client
\* is never constructed.
C1_OnlyAck200Subscribes ==
    (HandshakeJustRead /\ ~IsAck200(lastmsg))
        => (cpc = "failed" /\ exc.type = "TiingoSubscriptionError")

\* C2: when the response to the subscribe frame is an Error message (messageType
\* E) with code c and message m, construction fails with
\* TiingoSubscriptionError(c, m).
C2_ErrorResponseFailsSubscription ==
    (HandshakeJustRead /\ lastmsg.messageType = "E")
        => (cpc = "failed"
            /\ exc = TiingoSubscriptionError(lastmsg.code, lastmsg.message))

\* a direct get_next_trade call has ended
TradeCallEnded == op = "get_next_trade" /\ cpc = "ready"

\* C3: every get_next_trade call that ends has performed at least one read and
\* ends either by returning one TradeMessage (parsed from a record of type A)
\* or by raising; what a call returns or puts in a batch is never a heartbeat,
\* a subscription ack or an error message; a call still reading has only
\* discarded non-trade messages, and a heartbeat with code 200 never ends it.
C3_NextTradeReturnsOneTrade ==
    /\ ret.kind \in {"none", "TradeMessage", "TradeBatch"}
    /\ \A i \in 1 .. Len(batch) : batch[i].kind = "TradeMessage"
    /\ TradeCallEnded =>
          /\ callReads >= 1
          /\ \/ /\ ret.kind = "TradeMessage"
                /\ exc = NoExc
                /\ lastmsg.messageType = "A"
                /\ ret = TradeMessageParser_parse(lastmsg)
             \/ /\ ret = NoRet
                /\ exc # NoExc
    /\ (cpc \in {"trade", "batch_trade"} /\ callReads >= 1) =>
          lastmsg.messageType \in {"E", "H", "I"}
    /\ (op = "get_next_trade" /\ callReads >= 1
            /\ lastmsg.messageType = "H" /\ lastmsg.code = 200) =>
          (cpc = "trade" /\ ret = NoRet /\ exc = NoExc)

\* C3 witness: a direct call returned a trade after discarding a heartbeat
C3_Witness ==
    /\ TradeCallEnded
    /\ ret.kind = "TradeMessage"
    /\ callReads >= 2
    /\ nreads - callStart = callReads

\* C4: an Error message (messageType E) read by get_next_trade makes that call
\* raise TiingoMessageError with the vendor code and message, the call ending
\* at that message.
C4_MidStreamErrorRaises ==
    (op = "get_next_trade" /\ callReads >= 1 /\ lastmsg.messageType = "E")
        => (cpc = "ready"
            /\ exc = TiingoMessageError(lastmsg.code, lastmsg.message)
            /\ ret = NoRet)

C6_BatchHasExactlyNTrades ==
    /\ (op = "get_next_batch" /\ ret.kind = "TradeBatch") =>
          /\ want >= 1
          /\ Len(ret.batch) = want
          /\ tradeCalls = want
          /\ \A i \in 1 .. want : ret.batch[i].kind = "TradeMessage"
          /\ nreads - callStart >= want
    /\ (op = "get_next_batch" /\ cpc \in {"batch", "batch_trade"}) =>
          /\ tradeCalls <= want
          /\ Len(batch) <= tradeCalls
          /\ tradeCalls <= Len(batch) + 1

\* C6 witness: a batch of two trades returned with a heartbeat read in between
C6_Witness ==
    /\ op = "get_next_batch"
    /\ ret.kind = "TradeBatch"
    /\ want = 2
    /\ nreads - callStart > want

\* C20: the trade returned for a raw frame of type A with data
\* [updateType, ticker, date, exchange, size, price] has ticker, exchange, size
\* and price equal to the second, fourth, fifth and sixth element of data, and
\* as date the normalized third element ('2022-01-01T00:00:00+00:00' gives
\* '2022-01-01T00:00:00.000000Z'); the update type is not kept.
C20_TradeFieldsByPosition ==
    (TradeCallEnded /\ ret.kind = "TradeMessage") =>
        /\ lastmsg.messageType = "A"
        /\ ret.ticker = lastmsg.data[2]
        /\ ret.exchange = lastmsg.data[4]
        /\ ret.size = lastmsg.data[5]
        /\ ret.price = lastmsg.data[6]
        /\ (lastmsg.data[3] = "2022-01-01T00:00:00+00:00") =>
              ret.date = "2022-01-01T00:00:00.000000Z"
        /\ (lastmsg.data[3] = "2022-01-01T00:01:13.123456+00:00") =>
              ret.date = "2022-01-01T00:01:13.123456Z"
        /\ DOMAIN ret \subseteq {"kind", "ticker", "date", "exchange", "size", "price",
                                 "processed_at"}

\* C20 witness: a call returned the trade of a frame without fractional seconds
C20_Witness ==
    /\ TradeCallEnded
    /\ ret.kind = "TradeMessage"
    /\ lastmsg.data = <<"A", "BTC", "2022-01-01T00:00:00+00:00", "Bitfenix", 1234, 5678>>
    /\ ret.size = 1234

\* the exceptions of exceptions.py that report a message of the vendor
TiingoErrorTypes == {"TiingoClientError", "TiingoMessageError", "TiingoSubscriptionError"}

\* lastmsg is the record the constructor read
ReadByConstructor == op = "__init__" /\ nreads = 1

\* lastmsg is a record the current / last get_next_trade call read
ReadByTradeCall == callReads >= 1

\* C21: a message whose messageType is none of E, H, I, A makes the read fail
\* with one of the protocol's own errors (the malformed-message kind), and no
\* message object is produced for it.
C21_UnknownTypeIsProtocolError ==
    ((ReadByConstructor \/ ReadByTradeCall)
            /\ lastmsg.messageType \notin {"E", "H", "I", "A"}) =>
        /\ exc.type \in TiingoErrorTypes
        /\ ret = NoRet

\* C22: a non-trade message (E, H or I) with a code other than 200 surfaces as
\* an error carrying exactly its code and message, TiingoMessageError from
\* get_next_trade / get_next_batch and TiingoSubscriptionError from the
\* constructor; a non-trade message with code 200 raises nothing.
C22_NonTradeCodeDecides ==
    /\ (ReadByTradeCall /\ lastmsg.messageType \in {"E", "H", "I"}) =>
          IF lastmsg.code # 200
          THEN /\ exc = TiingoMessageError(lastmsg.code, lastmsg.message)
               /\ ret = NoRet
               /\ cpc = "ready"
          ELSE exc = NoExc
    /\ (ReadByConstructor /\ lastmsg.messageType \in {"E", "H", "I"}) =>
          IF lastmsg.code # 200
          THEN /\ exc = TiingoSubscriptionError(lastmsg.code, lastmsg.message)
               /\ cpc = "failed"
          ELSE exc = NoExc /\ cpc = "ready"

\* C22 witness: a heartbeat with code 401 read by get_next_trade raised
C22_Witness ==
    /\ op = "get_next_trade"
    /\ ReadByTradeCall
    /\ lastmsg.messageType = "H"
    /\ lastmsg.code = 401
    /\ exc = TiingoMessageError(401, lastmsg.message)

\* the client is in the Failed state of its lifecycle: the subscription
\* failed, or the last call on it raised a protocol error mid-stream
LifecycleFailed ==
    \/ cpc = "failed"
    \/ cpc = "ready" /\ exc.type = "TiingoMessageError"

\* C24: Failed is terminal: once the subscription has failed or a call has
\* raised a protocol error mid-stream, the client serves no further
\* get_next_trade or get_next_batch, so no call starts and no message is read
\* from then on.
C24_FailedIsTerminal == [][LifecycleFailed => UNCHANGED <<cpc, op, nreads>>]_vars

\* the trades the running get_next_batch has read for its unfinished batch
PendingBatch == IF cpc \in {"batch", "batch_trade"} THEN batch ELSE <<>>

\* C30 as stated: the trades returned are exactly the Trade messages the calls
\* read from the connection up to the first error, in arrival order: every
\* trade read is returned, none is lost, duplicated or reordered.
C30_NoTradeLost ==
    /\ ~misordered
    /\ lost = <<>>
    /\ (cpc = "ready" /\ ~failed) => outstanding = <<>>

\* C30 amended: up to the first call that raises, every call returns the
\* oldest trades not yet returned, in arrival order, and leaves none behind
\* when it returns: the only trades read and not returned are those of the
\* batch under construction. The call that raises returns nothing: the trades
\* a failing get_next_batch(n) had read for its batch, fewer than n, are
\* dropped with it.
C30_ReturnedInArrivalOrder ==
    /\ ~misordered
    /\ ~failed => (outstanding = PendingBatch /\ lost = <<>>)
    /\ failed => (outstanding = <<>> /\ Len(lost) < MaxBatch)
    /\ (op = "get_next_trade" /\ callStart = 1 /\ exc # NoExc) => lost = <<>>

\* C30 witness: a get_next_trade and then a get_next_batch(2) have returned
\* three trades out of five messages read, and nothing is outstanding
C30_Witness ==
    /\ ~failed
    /\ op = "get_next_batch"
    /\ cpc = "ready"
    /\ tradeCalls = 2
    /\ callStart >= 2
    /\ nreads = MaxReads
    /\ ret = TradeBatch(batch)
    /\ Len(batch) = 2
    /\ batch[1] # batch[2]
    /\ outstanding = <<>>

---------------------------------------------------------------------------
(* Properties of the delivery *)

IsError(a, code) == ~a.ok /\ a.code = code

\* the sink answered every put_record call of this put with ServiceUnavailableError
AllServiceUnavailable ==
    \A i \in 1 .. Len(answers) : IsError(answers[i], "ServiceUnavailableError")

\* C7: when the sink answers every append with ServiceUnavailableError,
\* put_to_kinesis_stream (aws_retry) makes 1 + total_retries append calls,
\* total_retries of them retries, and then raises that error; it does not
\* return and does not raise earlier.
C7_RetriesExactlyTotalThenRaises ==
    (dvariant = "aws_retry" /\ dpc # "idle" /\ AllServiceUnavailable) =>
        /\ dpc # "returned"
        /\ dpc = "loop" => (Len(answers) = retries /\ retries <= total_retries)
        /\ dpc = "raised" =>
              /\ Len(answers) = 1 + total_retries
              /\ retries = total_retries
              /\ dexc = ClientError("ServiceUnavailableError")

\* C7 witness: the default budget of 2 is exhausted after three failed appends
C7_Witness ==
    /\ dvariant = "aws_retry"
    /\ total_retries = 2
    /\ AllServiceUnavailable
    /\ Len(answers) = 3
    /\ dpc = "raised"

\* C8 as stated: when an append fails with an error code other than
\* ServiceUnavailableError, exactly one append call is issued for that put and
\* the same error is raised.
C8_ExactlyOneAppend ==
    \A i \in 1 .. Len(answers) :
        (~answers[i].ok /\ answers[i].code # "ServiceUnavailableError") =>
            /\ Len(answers) = 1
            /\ dpc = "raised"
            /\ dexc = ClientError(answers[i].code)

\* C8 amended: an append that fails with an error code other than
\* ServiceUnavailableError is the last append of its put: the put raises that
\* same error without a retry and without a sleep, whatever budget remains;
\* the appends before it are the retried ServiceUnavailableError ones, so when
\* it is the first append it is the only one. This holds for the three
\* delivery variants.
C8_NoRetryOnOtherErrors ==
    \A i \in 1 .. Len(answers) :
        (~answers[i].ok /\ answers[i].code # "ServiceUnavailableError") =>
            /\ i = Len(answers)
            /\ dpc = "raised"
            /\ dexc = ClientError(answers[i].code)
            /\ retries = i - 1
            /\ Len(sleeps) = i - 1
            /\ \A j \in 1 .. i - 1 : IsError(answers[j], "ServiceUnavailableError")

\* C8 witness: after one retried ServiceUnavailableError the second append
\* fails with AccessDeniedException while one retry remains; the put raised
C8_Witness ==
    /\ dvariant = "aws_retry"
    /\ total_retries = 2
    /\ Len(answers) = 2
    /\ IsError(answers[1], "ServiceUnavailableError")
    /\ IsError(answers[2], "AccessDeniedException")
    /\ dpc = "raised"
    /\ retries = 1

\* C9: a put returns normally only if one append call succeeded; when every
\* attempt fails the put raises (aws_retry, retry and put_to_stream alike).
C9_ReturnsOnlyAfterSuccess ==
    dpc = "returned" => \E i \in 1 .. Len(answers) : answers[i].ok

\* C27: the delay before the k-th retry of a delivery is k * delay: the sleeps
\* of one put are delay, 2 * delay, ... in this order, one per retry, none
\* before the first attempt and none after the last failing attempt (aws_retry,
\* retry and put_to_stream alike).
C27_LinearBackoff ==
    /\ \A k \in 1 .. Len(sleeps) : sleeps[k] = k * DefaultDelay
    /\ dpc \in {"returned", "raised"} => Len(sleeps) = Len(answers) - 1

\* C28: one put through aws_retry issues at most total_retries + 1 append
\* calls; while it is still looping it has used fewer, and once it has issued
\* total_retries + 1 it is over: it returned, or, when that last append failed
\* too, it raised that append's error instead of trying again.
C28_BoundedAttempts ==
    dvariant = "aws_retry" =>
        /\ Len(answers) <= total_retries + 1
        /\ dpc = "loop" => Len(answers) <= total_retries
        /\ Len(answers) = total_retries + 1 =>
              /\ dpc \in {"returned", "raised"}
              /\ ~answers[Len(answers)].ok =>
                    /\ dpc = "raised"
                    /\ dexc = ClientError(answers[Len(answers)].code)

\* C28 witness: with a budget of 2 the third append fails as well and the put
\* has raised
C28_Witness ==
    /\ dvariant = "aws_retry"
    /\ total_retries = 2
    /\ Len(answers) = 3
    /\ ~answers[3].ok
    /\ dpc = "raised"

\* C29: an append call of aws_retry that succeeds is the last append of its
\* put, and the put has returned the receipt built from that call's answer,
\* its record id and its encrypted flag; every append before it had failed.
C29_ReceiptOfTheSuccessfulCall ==
    dvariant = "aws_retry" =>
        \A i \in 1 .. Len(answers) :
            answers[i].ok =>
                /\ i = Len(answers)
                /\ dpc = "returned"
                /\ dret = FirehoseResponse(answers[i].record_id, answers[i].encrypted)
                /\ \A j \in 1 .. i - 1 : ~answers[j].ok

\* C29 witness: the second append succeeds after one retry and its receipt,
\* not one with another record id, is returned
C29_Witness ==
    /\ dvariant = "aws_retry"
    /\ Len(answers) = 2
    /\ ~answers[1].ok
    /\ answers[2].ok
    /\ answers[2].record_id = "r2"
    /\ answers[2].encrypted
    /\ dret = FirehoseResponse("r2", TRUE)

---------------------------------------------------------------------------
(* Properties of the writer *)

\* C10: after a response that reports a non-empty set of unprocessed items the
\* writer re-submits exactly those items, until a response reports none; when
\* the write returns, every item of the chunk is committed.
C10_UnprocessedItemsResubmitted ==
    wpc = "returned" => chunk \subseteq committed

\* C11: the write reports success only after a response that reports no
\* unprocessed item: with a non-empty unprocessed set on the first k calls and
\* an empty one on call k+1 it has issued k+1 calls, so a write that returns
\* after its first call had an empty first response.
C11_ReturnsAfterEmptyResponse ==
    wpc = "returned" => (Len(calls) >= 1 /\ response.items = {})

\* C13: once batch_write_item has raised a hard error the write is over: the
\* error is the one the write raises, and no further batch_write_item call is
\* issued and nothing more is committed afterwards.
C13_HardErrorAborts ==
    [][wexc.type = "ClientError" =>
          /\ wpc = "raised"
          /\ wpc' = wpc
          /\ wexc' = wexc
          /\ calls' = calls
          /\ committed' = committed]_vars

\* C13 witness: the first call of a chunk raised and the write ended raising it
C13_Witness ==
    /\ wexc = ClientError("InternalServerError")
    /\ wpc = "raised"
    /\ Len(calls) = 1
    /\ committed = {}

\* C37: the drain loop re-submits for as long as the store reports a
\* non-empty unprocessed set and never gives up with an error of its own: the
\* write ends only by returning after a response that reports nothing
\* unprocessed, or by raising the store's hard error.
C37_DrainsUntilEmpty ==
    /\ wexc # NoExc => wexc.type = "ClientError"
    /\ wpc = "returned" => response.items = {}

---------------------------------------------------------------------------
(* Properties of the TradeList *)

\* C12: the records of a write are partitioned into chunks of at most 25 and
\* one batch_write_item call is issued per chunk: no call ever carries more
\* than 25 put requests, whatever the number of records.
C12_NoCallOverBatchSize ==
    \A k \in 1 .. Len(writes) : Len(writes[k]) <= DefaultBatchSize

RECURSIVE Concat(_)
\* the concatenation of a sequence of lists
Concat(lists) ==
    IF lists = <<>> THEN <<>> ELSE Head(lists) \o Concat(Tail(lists))

\* TradeList.batch was called on the list
BatchCalled == batch_arg >= 1

\* C35: TradeList.batch(size), size >= 1, returns chunks whose concatenation in
\* order is the original list; every chunk is non-empty, every chunk but the
\* last has exactly size elements and the last has between 1 and size; an
\* empty list yields no chunk.
C35_BatchPartitionsTheList ==
    BatchCalled =>
        /\ Concat(batches) = trades
        /\ \A k \in 1 .. Len(batches) :
              /\ Len(batches[k]) >= 1
              /\ Len(batches[k]) <= batch_arg
              /\ k < Len(batches) => Len(batches[k]) = batch_arg
        /\ trades = <<>> => batches = <<>>

\* C35 witness: 27 trades in chunks of 25 give a chunk of 25 and one of 2
C35_Witness ==
    /\ BatchCalled
    /\ Len(trades) = MaxTrades
    /\ batch_arg = DefaultBatchSize
    /\ Len(batches) = 2
    /\ Len(batches[2]) = MaxTrades - DefaultBatchSize

\* C36: the put request of a record maps every field of the record, the
\* consumer-side lambda_processed_at included, to one typed attribute (S or
\* N) carrying the field's value; one put request per record, the same for
\* the same record.
C36_EveryFieldMapped ==
    \A w \in 1 .. Len(writes) :
        /\ Len(writes[w]) = Len(trades)
        /\ \A i \in 1 .. Len(trades) :
              /\ writes[w][i] = _create_dynamodb_put_request(trades[i])
              /\ \A f \in DOMAIN trades[i] :
                    \E a \in DOMAIN writes[w][i].PutRequest.Item :
                        \/ writes[w][i].PutRequest.Item[a] = [S |-> trades[i][f]]
                        \/ writes[w][i].PutRequest.Item[a] = [N |-> trades[i][f]]

---------------------------------------------------------------------------
(* Properties of compress / decompress / parse *)

\* the object was compressed from a non-empty batch and has been decoded
RoundTripDone == gpc = "parsed" /\ sent # <<>>

BadLine(l) ==
    \/ ~json_loads(l).ok
    \/ _parse_trade_exc(json_loads(l).members) # NoExc

\* the decompressed text has a line that does not parse
HasBadLine ==
    \E i \in 1 .. Len(readlines(raw)) : BadLine(StrStrip(readlines(raw)[i], "\n"))

\* C15: when a line of the decompressed object fails to parse, the decode call
\* raises and returns no record: the bad line is not skipped and the records
\* of the lines that did parse are not returned.
C15_BadLineFailsWholeDecode ==
    (gpc \in {"parsed", "raised"} /\ file.gzip /\ HasBadLine) =>
        /\ gpc = "raised"
        /\ gexc.type \in {"JSONDecodeError", "KeyError", "ValueError", "AttributeError"}
        /\ parsed = <<>>

\* C15 witness: a good line followed by a line that is not JSON; parse raised
C15_Witness ==
    /\ gpc = "raised"
    /\ file.gzip
    /\ Len(readlines(raw)) = 2
    /\ ~BadLine(StrStrip(readlines(raw)[1], "\n"))
    /\ BadLine(readlines(raw)[2])
    /\ gexc = JSONDecodeError

---------------------------------------------------------------------------
(* Properties of lambda_handler *)

\* C16: every failure inside one invocation (object read, decompression, parse,
\* store write) ends the invocation with a response made of a status and a
\* message; no failure leaves the handler as an exception.
C16_FailuresAreStructured ==
    hpc \in {"returned", "raised"} =>
        /\ hpc = "returned"
        /\ hexc = NoExc
        /\ hresp.statusCode \in {200, 400}
        /\ hresp.body # ""

\* C17: the object the handler reads is the one the event's first record
\* names: its bucket, and its key after percent-decoding.
C17_ReadsEventObject ==
    s3get # NoCall => s3get = get_event_bucket_and_object_key(event)

\* the put requests submitted in the batch_write_item calls of the invocation
Submitted == UNION {hwrites[k] : k \in 1 .. Len(hwrites)}

\* C33: when the handler returns status 200 reporting N trade records put to
\* the table, each of the N parsed records has been submitted to the store in
\* a batch_write_item call.
C33_ReportedTradesWereWritten ==
    (hpc = "returned" /\ hresp.statusCode = 200) =>
        \A i \in 1 .. Len(htrades) :
            _create_dynamodb_put_request(htrades[i]) \in Submitted

HandlerSteps ==
    <<"get_file_from_s3", "decompress_file", "parse_file_to_trade_list",
      "put_trades_to_dynamodb">>

HandlerFailed == hexc # NoExc \/ hresp.statusCode = 400

\* C34: the handler calls read, decompress, parse and write in this order,
\* each at most once and none before the one before it; when the read, the
\* decompression or the parsing failed, the write step is not reached and no
\* batch_write_item call is issued.
C34_FailureLeavesStoreUnchanged ==
    /\ Len(hsteps) <= 4
    /\ hsteps = SubSeq(HandlerSteps, 1, Len(hsteps))
    /\ HandlerFailed =>
          /\ Len(hsteps) <= 3
          /\ hwrites = <<>>
          /\ hpc \in {"returned", "raised"}
    /\ hwrites # <<>> => Len(hsteps) = 4

\* C34 witness: the object was read and decompressed, a line of it did not
\* parse, and nothing was written
C34_Witness ==
    /\ hsteps = SubSeq(HandlerSteps, 1, 3)
    /\ hpc = "raised"
    /\ hexc # NoExc
    /\ hraw # ""
    /\ hwrites = <<>>

---------------------------------------------------------------------------
(* Properties of the date validator *)

\* a vendor timestamp: wall-clock time, optional six-digit fraction, an offset
IsVendorTimestamp(ts) ==
    /\ Len(ts) \in {25, 32}
    /\ IsIsoFormat(SubSeq(ts, 1, Len(ts) - 6))
    /\ SubSeq(ts, Len(ts) - 5, Len(ts) - 5) \in {"+", "-"}
    /\ IsDigits(SubSeq(ts, Len(ts) - 4, Len(ts) - 3))
    /\ SubSeq(ts, Len(ts) - 2, Len(ts) - 2) = ":"
    /\ IsDigits(SubSeq(ts, Len(ts) - 1, Len(ts)))

\* ... in UTC
IsVendorUtcTimestamp(ts) ==
    IsVendorTimestamp(ts) /\ SubSeq(ts, Len(ts) - 5, Len(ts)) = "+00:00"

\* the validator has finished on the argument
Normalized == npc \in {"returned", "raised"}

C19_NeverFails ==
    /\ npc # "raised"
    /\ (npc = "returned" /\ IsVendorTimestamp(date_arg)) =>
          /\ Len(normalized) = 27
          /\ IsIsoFormat(SubSeq(normalized, 1, 26))
          /\ SubSeq(normalized, 27, 27) = "Z"

---------------------------------------------------------------------------
(* Properties of the subscription routines *)

\* C25: while the connection is set up, one subscribe frame
\* {eventName: 'subscribe', authorization: token, eventData: {thresholdLevel: 5}}
\* is sent after the transport is opened, then exactly one response is read:
\* no read precedes the send, and no second frame is sent or second response
\* read before the routine returns.
C25_OneFrameThenOneRead ==
    /\ spc \in {"idle", "connected"} => (sframes = <<>> /\ sreads = <<>>)
    /\ spc \in {"sent", "subscribed", "done"} => sframes = <<SubscribePayload(Token)>>
    /\ sreads # <<>> => sframes # <<>>
    /\ Len(sreads) <= 1
    /\ spc = "done" => Len(sreads) = 1

---------------------------------------------------------------------------
(* Properties of the producer process *)

\* C23: once a step of main (secret retrieval, subscription, get_next_batch,
\* the put to the sink) has raised, main is over: the exception that step
\* raised is the one that leaves main, and from then on no message is read
\* from the connection and no put_record call is issued.
C23_FatalErrorEndsMain ==
    [][/\ mraised' # NoExc => (mpc' = "raised" /\ mexc' = mraised')
       /\ mraised # NoExc => UNCHANGED <<mreads, mappends, mexc>>]_vars

\* C23 witness: after one delivered batch the put of the second one is refused
\* with AccessDeniedException, which left main
C23_Witness ==
    /\ mstep = "put"
    /\ mpc = "raised"
    /\ mexc = ClientError("AccessDeniedException")
    /\ mlogged
    /\ Len(mdelivered) = 1
    /\ mappends >= 2

\* number of lines of a payload
PayloadLines(payload) == Len(StrSplit(payload.data, "\n"))

\* C26: when a get_next_trade inside get_next_batch(n) fails, the call fails
\* with that error and returns no batch: main compresses and delivers nothing
\* for that call, so the trades already read for it are not delivered as a
\* shorter batch; every payload delivered holds n trades (stated of the one
\* delivered last, which each of them was in turn).
C26_NoPartialBatch ==
    /\ mdelivered # <<>> => PayloadLines(mdelivered[Len(mdelivered)]) = mbatch_size
    /\ mcompressed <= mcalls
    /\ mstep = "get_next_batch" =>
          /\ mpc = "raised"
          /\ mexc = mraised
          /\ mcompressed = mcalls - 1
          /\ Len(mdelivered) = mcalls - 1

\* C26 witness: the second get_next_batch(2) has read one trade when an error
\* message arrives; the first batch was delivered, nothing else
C26_Witness ==
    /\ mbatch_size = 2
    /\ mcalls = 2
    /\ mstep = "get_next_batch"
    /\ mraised.type = "TiingoMessageError"
    /\ Len(mbatch) = 1
    /\ Len(mdelivered) = 1
    /\ mcompressed = 1

\* C31: main handles one batch at a time: a message is read from the
\* connection only while every batch compressed so far has been put
\* successfully, a put_record call is issued only for the one batch that is
\* compressed and not yet put, and never more than one batch is in that state.
C31_OneBatchAtATime ==
    [][/\ mreads' > mreads => mcompressed = Len(mdelivered)
       /\ mappends' > mappends => mcompressed = Len(mdelivered) + 1
       /\ mcompressed' - Len(mdelivered') \in {0, 1}
       /\ mcompressed' > mcompressed => mcompressed = Len(mdelivered)]_vars

\* C31 witness: the second batch is being read after the first one was put
C31_Witness ==
    /\ mpc = "batch"
    /\ mcalls = 2
    /\ Len(mbatch) = 1
    /\ Len(mdelivered) = 1
    /\ mcompressed = 1
    /\ mappends >= 2

\* the payload is a gzip member holding one JSON document per trade of b, in
\* the order of b
PayloadHolds(payload, b) ==
    LET lines == StrSplit(payload.data, "\n")
    IN  /\ payload.gzip
        /\ Len(lines) = Len(b)
        /\ \A i \in 1 .. Len(b) :
              LET d == json_loads(lines[i])
              IN  /\ d.ok
                  /\ GetItem(d.members, "ticker").v = b[i].ticker
                  /\ GetItem(d.members, "date").v = b[i].date
                  /\ GetItem(d.members, "exchange").v = b[i].exchange
                  /\ GetItem(d.members, "size").v = ToString(b[i].size) \o ".0"
                  /\ GetItem(d.members, "price").v = ToString(b[i].price) \o ".0"

\* C32: the payload of every put_record call holds exactly the batch_size
\* trades pulled since the previous successful append, one JSON line per trade
\* in pull order; after a successful append that payload is the one delivered
\* and no pulled trade is left over for another batch.
C32_PayloadIsTheTradesPulled ==
    /\ mpc = "put" => (Len(msince) = mbatch_size /\ PayloadHolds(mpayload, msince))
    /\ mpc = "loop" => msince = <<>>
    /\ (mpc = "loop" /\ mdelivered # <<>>) => mdelivered[Len(mdelivered)] = mpayload
    /\ mpc = "batch" => Len(msince) <= mbatch_size

\* C32 witness: a batch of two different trades, pulled with a heartbeat in
\* between, is being put
C32_Witness ==
    /\ mpc = "put"
    /\ mbatch_size = 2
    /\ mreads >= 4
    /\ Len(msince) = 2
    /\ msince[1].ticker # msince[2].ticker
    /\ PayloadHolds(mpayload, msince)

\* the clock reading a processed_at value was formatted from
StampClock(s) == CHOOSE c \in 0 .. MaxClock : _formatted_utc_now(c) = s

\* C38: every trade record carries a processed_at stamped when the record is
\* built: it is the formatted clock of that moment, records built at
\* different clock values carry different stamps, the stamps never decrease
\* along the stream, and none is a value fixed when the producer started
C38_FreshProcessedAt ==
    /\ \A i \in 1 .. Len(kstamps) :
          kstamps[i].processed_at = _formatted_utc_now(kstamps[i].at)
    /\ \A i, j \in 1 .. Len(kstamps) :
          /\ kstamps[i].at # kstamps[j].at
                => kstamps[i].processed_at # kstamps[j].processed_at
          /\ i < j => StampClock(kstamps[i].processed_at)
                          <= StampClock(kstamps[j].processed_at)

====
